---- MODULE Spec2Model ----
(***************************************************************************)
(* The animation-job pipeline of api/src/manim: ManimService               *)
(* (service.py) and generate_ai_manim_code (ai_generator.py).              *)
(*                                                                         *)
(* One call of render_multiple_animations is modelled: it creates one      *)
(* render_animation coroutine per concept and gathers them.  The asyncio   *)
(* event loop runs one coroutine at a time (running) and takes the next    *)
(* one from a FIFO of runnable coroutines (ready); a coroutine gives the   *)
(* loop up only where it really suspends, which in this code is the        *)
(* run_in_executor await of _render_in_thread (the provider calls use the  *)
(* blocking requests.post and the linter the blocking subprocess.run).     *)
(* The ThreadPoolExecutor is a FIFO work queue (queue) and the set of jobs *)
(* whose manim subprocess is running (executing).                          *)
(*                                                                         *)
(* What the provider, the linter, the renderer and the filesystem answer   *)
(* is chosen with \E from small sets.  Python's None is the string "None", *)
(* a dict is a record and a missing key is a missing field.  The locals of *)
(* a coroutine are the record loc[j]; a local that is not read again is   *)
(* set back to its unbound value.                                          *)
(*                                                                         *)
(* Spec is a call with one concept, with the history of the stages that    *)
(* ran recorded in hist; SpecBatch is a call with two concepts, where the  *)
(* history is not recorded.                                                *)
(***************************************************************************)
EXTENDS Integers, Sequences, FiniteSets, TLC

(* ------------------------------ bounds --------------------------------- *)
\* distinct source texts the provider / the pattern fixer can produce
NumCodes == 2
\* distinct stderr texts of a failing manim run
NumDiags == 1
\* distinct values of scene_<timestamp>_<random>
NumIds == 2
\* MANIM_MAX_WORKERS of the modelled deployment
MaxWorkers == 1
MaxChain == 5

(* --------------------------- program constants ------------------------- *)
MAX_LINT_RETRIES == 2

NoneV == "None"

CodeNames == <<"code1", "code2", "code3", "code4">>
Codes == {CodeNames[i] : i \in 1..NumCodes}

DiagNames == <<"stderr1", "stderr2", "stderr3", "stderr4">>
Diags == {DiagNames[i] : i \in 1..NumDiags}

Ids == 1..NumIds

\* the concept lists render_multiple_animations is called with
SingleCalls == {<<"pythagorean theorem">>}
BatchCalls == {<<"pythagorean theorem", "golden ratio">>}

\* the quality argument: a valid name, an invalid name, None, or a value that
\* is not hashable (a list)
QualityArgs == {"low", "bogus", NoneV, "unhashable"}
ValidQualities == {"low", "medium", "high"}
\* RENDER_QUALITY of the environment, lower-cased
DefaultQualities == {"medium", "ultra"}

VARIABLES
    apiKey,          \* OPENROUTER_API_KEY is set
    default_quality, \* self.default_quality
    concepts,        \* argument of render_multiple_animations
    qualityArg,      \* argument quality
    active,          \* self._active_renders
    dirs,            \* the directories tmp/<id> that exist
    videos,          \* the files static/videos/<id>.mp4 that exist
    ready,           \* event loop: runnable coroutines, FIFO
    running,         \* event loop: the coroutine that runs, 0 when none
    queue,           \* executor: submitted calls no thread has taken
    executing,       \* executor: jobs whose manim subprocess runs
    future,          \* per job: what _run_manim_subprocess ended with
    pc,              \* per job: where render_animation stands
    filename,        \* per job: scene_<timestamp>_<random>, 0 when unbound
    quality,         \* per job: local quality
    loc,             \* per job: the other locals of the coroutine
    result,          \* per job: what render_animation returned
    processed,       \* processed_results of render_multiple_animations
    hist,            \* per job: history of the stages that ran
    call,            \* a call of one of the helper functions: its arguments
    ret,             \* what that call returned, NoneV before it returns
    tempfiles        \* the files of the temporary directory lint_code wrote

vars == <<apiKey, default_quality, concepts, qualityArg, active, dirs, videos,
          ready, running, queue, executing, future, pc, filename, quality,
          loc, result, processed, hist, call, ret, tempfiles>>

Jobs == 1..Len(concepts)

cfgVars == <<apiKey, default_quality, concepts, qualityArg, call, ret, tempfiles>>
pipeVars == <<apiKey, default_quality, concepts, qualityArg, active, dirs, videos,
              ready, running, queue, executing, future, pc, filename, quality,
              loc, result, processed, hist>>
poolVars == <<queue, executing, future>>

(* ------------------------- values and helpers -------------------------- *)
\* min(S)
Min(S) == CHOOSE k \in S : \A m \in S : k <= m

\* Python truthiness of an Optional[str]
Truthy_NotNone(s) == s # NoneV
Truthy(s) == s \notin {NoneV, ""}


\* extract_code_from_response: empty text gives "", else the stripped text
extract_code_from_response(text) ==
    IF text = "" THEN "" ELSE IF text = " " THEN "" ELSE text

\* the tail of generate_openrouter_manim_code and refine_code_with_openrouter
ProviderAnswer(resp) ==
    IF ~apiKey THEN NoneV
    ELSE IF resp.status = "200"
         THEN LET c == extract_code_from_response(resp.content)
              IN IF Truthy(c) THEN c ELSE NoneV
         ELSE NoneV

NoResult == [pending |-> TRUE]
NoFuture == [state |-> "none"]
NoRender == [none |-> TRUE]

\* the locals before they are bound (and after the coroutine has returned)
NoLocals ==
    [gphase |-> "initial", code |-> NoneV, attempt |-> 0, manim_code |-> NoneV,
     used_ai |-> FALSE, fixed_code |-> NoneV, ai_fixed_code |-> NoneV,
     new_code |-> NoneV, tier |-> "first", render_result |-> NoRender]

\* rendered: the tier of each manim subprocess started; tiers: the repair
\* tiers entered; the counters count the calls of each stage; of the current
\* generation stage: stageCalls, the calls of generate_openrouter_manim_code,
\* primaryCode, whether the first of them gave code, and lastLint, what the
\* linter said of the code the stage holds; of the last manim subprocess:
\* lastText, the text of scene.py it ran on, lastOutcome, how it ended, and
\* lastDiag, the details _render_in_thread made of it
NoHist == [rendered |-> <<>>, lints |-> 0, lintRepairs |-> 0, generations |-> 0,
           tiers |-> <<>>, lastDiag |-> NoneV, exit |-> "none",
           stageCalls |-> 0, primaryCode |-> FALSE, lastLint |-> "none",
           lastOutcome |-> [kind |-> "none"], lastText |-> NoneV]

\* the history is recorded for a call with a single concept
Traced == Len(concepts) = 1

Upd(f, j, v) == [f EXCEPT ![j] = v]
Record(j, h) == IF Traced THEN Upd(hist, j, h) ELSE hist

(* ------------------------------- Init ---------------------------------- *)
NoCall == [fn |-> "none"]

InitPipeline(calls, defaults, qualities) ==
    /\ apiKey \in BOOLEAN
    /\ default_quality \in defaults
    /\ concepts \in calls
    /\ qualityArg \in qualities
    /\ active = {}
    /\ dirs = {}
    /\ videos = {}
    /\ ready = [i \in 1..Len(concepts) |-> i]
    /\ running = 0
    /\ queue = <<>>
    /\ executing = {}
    /\ future = [j \in 1..Len(concepts) |-> NoFuture]
    /\ pc = [j \in 1..Len(concepts) |-> "start"]
    /\ filename = [j \in 1..Len(concepts) |-> 0]
    /\ quality = [j \in 1..Len(concepts) |-> qualityArg]
    /\ loc = [j \in 1..Len(concepts) |-> NoLocals]
    /\ result = [j \in 1..Len(concepts) |-> NoResult]
    /\ processed = <<>>
    /\ hist = [j \in 1..Len(concepts) |-> NoHist]

InitWith(calls, defaults, qualities) ==
    /\ call = NoCall
    /\ ret = NoneV
    /\ tempfiles = {}
    /\ InitPipeline(calls, defaults, qualities)

Init == InitWith(SingleCalls, DefaultQualities, QualityArgs)

InitBatch == InitWith(BatchCalls, {"medium"}, {"low", "unhashable"})

(* ----------------------------- templates.py --------------------------- *)
\* TEMPLATE_MAPPINGS: the first two entries of the table, in its order
TEMPLATE_MAPPINGS ==
    << [name |-> "pythagorean",
        keywords |-> {"pythagoras", "pythagorean", "right triangle", "hypotenuse"},
        generator |-> "generate_pythagorean_code"],
       [name |-> "quadratic",
        keywords |-> {"quadratic", "parabola", "x squared", "x^2"},
        generator |-> "generate_quadratic_code"] >>

\* the keywords of the table that are substrings of concept.lower().strip()
KeywordsIn(concept) ==
    CASE concept = "pythagorean theorem" -> {"pythagorean"}
      [] concept = "golden ratio" -> {}
      [] OTHER -> {}

\* the text a generator of templates.py returns (each is a scene class
\* MainScene), named by its generator
TemplateCode(generator) == generator

\* select_template: the first entry with the most keyword matches, None
\* when no keyword matches
select_template(concept) ==
    LET matches(i) == Cardinality(TEMPLATE_MAPPINGS[i].keywords \cap KeywordsIn(concept))
        idx == DOMAIN TEMPLATE_MAPPINGS
        best == CHOOSE i \in idx :
                   /\ \A k \in idx : matches(k) <= matches(i)
                   /\ \A k \in idx : k < i => matches(k) < matches(i)
    IN IF matches(best) > 0 THEN TemplateCode(TEMPLATE_MAPPINGS[best].generator)
       ELSE NoneV

(* ------------------------- render_animation ---------------------------- *)
\* lines 198-201: the quality the job runs with
ResolveQuality(q) ==
    IF q \notin (ValidQualities \cup {NoneV}) THEN default_quality
    ELSE IF q = NoneV THEN default_quality ELSE q

\* shutil.rmtree(temp_dir, ignore_errors=True)
rmtree_Skipped(ds, f) == ds
rmtree(ds, f) == ds \ {f}

\* self._active_renders.discard(filename)
discard(a, f) == a \ {f}

GenerationFailure(q) ==
    [success |-> FALSE, error |-> "Failed to generate code template",
     render_quality |-> q]

\* {'success': False, **render_result, 'render_quality': quality}
RenderFailure_ErrorAsDetails(rr, q) ==
    [success |-> FALSE, error |-> rr.error, details |-> rr.error,
     render_quality |-> q]
RenderFailure(rr, q) ==
    [success |-> FALSE, error |-> rr.error, details |-> rr.details,
     render_quality |-> q]

ArtifactMissing_AsRenderFailure(q) ==
    [success |-> FALSE, error |-> "Failed to generate animation",
     render_quality |-> q]
ArtifactMissing(q) ==
    [success |-> FALSE, error |-> "Generated video file not found",
     render_quality |-> q]

InternalError_NoDetails(e, q) ==
    [success |-> FALSE, error |-> "Internal server error", render_quality |-> q]
InternalError(e, q) ==
    [success |-> FALSE, error |-> "Internal server error", details |-> e,
     render_quality |-> q]

Success(f, c, u, q) ==
    [success |-> TRUE, video_url |-> f, code |-> c, used_ai |-> u,
     render_quality |-> q]

\* the coroutine goes on running with its locals changed to l
Continue(j, where, l) ==
    /\ pc' = Upd(pc, j, where)
    /\ loc' = Upd(loc, j, l)
    /\ running' = j
    /\ UNCHANGED <<result, active, dirs>>

\* a return statement inside the inner try: the finally clause runs (lines
\* 483-489), the coroutine ends and the event loop is free
Return(j, res, kind, h) ==
    /\ result' = Upd(result, j, res)
    /\ pc' = Upd(pc, j, "done")
    /\ loc' = Upd(loc, j, NoLocals)
    /\ dirs' = rmtree(dirs, filename[j])
    /\ active' = discard(active, filename[j])
    /\ hist' = Record(j, [h EXCEPT !.exit = kind])
    /\ running' = 0

\* an exception inside the inner try: the finally clause, then the handler
\* of the outer try (lines 483-503)
RaiseInside(j, e, h) ==
    /\ result' = Upd(result, j, InternalError(e, quality[j]))
    /\ pc' = Upd(pc, j, "done")
    /\ loc' = Upd(loc, j, NoLocals)
    /\ dirs' = rmtree(dirs, filename[j])
    /\ active' = discard(discard(active, filename[j]), filename[j])
    /\ hist' = Record(j, [h EXCEPT !.exit = "internal"])
    /\ running' = 0

\* lines 204-206: the values the timestamp and the six random letters can
\* give.  The ids are interchangeable, so a value no job has drawn yet is
\* taken to be the smallest unused one.
UsedIds == {filename[i] : i \in Jobs} \ {0}
NewIds == UsedIds \cup {f \in Ids : \A g \in Ids \ UsedIds : f <= g}

\* lines 196-210: the coroutine starts; quality validation, the id, the
\* registry.  A quality that cannot be hashed raises TypeError in the set
\* membership test; the handler of line 491 then reads filename, which is
\* not bound yet, and the UnboundLocalError leaves render_animation.
Begin(j) ==
    /\ running = 0
    /\ ready # <<>>
    /\ Head(ready) = j
    /\ pc[j] = "start"
    /\ ready' = Tail(ready)
    /\ IF qualityArg = "unhashable"
       THEN /\ pc' = Upd(pc, j, "raised")
            /\ result' = Upd(result, j, [raised |-> "UnboundLocalError"])
            /\ hist' = Record(j, [hist[j] EXCEPT !.exit = "raised"])
            /\ running' = 0
            /\ UNCHANGED <<quality, filename, active>>
       ELSE /\ quality' = Upd(quality, j, ResolveQuality(qualityArg))
            /\ \E f \in NewIds :
                 /\ filename' = Upd(filename, j, f)
                 /\ active' = active \cup {f}
            /\ pc' = Upd(pc, j, "mkdir")
            /\ running' = j
            /\ UNCHANGED <<result, hist>>
    /\ UNCHANGED <<cfgVars, poolVars, dirs, videos, loc, processed>>

\* lines 213-214: temp_dir.mkdir(parents=True, exist_ok=True); an OSError is
\* raised outside the inner try, so only the outer handler runs
MakeTempDir(j) ==
    /\ running = j
    /\ pc[j] = "mkdir"
    /\ \/ /\ dirs' = dirs \cup {filename[j]}
          /\ pc' = Upd(pc, j, "gen")
          /\ UNCHANGED <<active, result, hist, running>>
       \/ /\ filename[j] \notin dirs
          /\ active' = discard(active, filename[j])
          /\ result' = Upd(result, j, InternalError("OSError", quality[j]))
          /\ pc' = Upd(pc, j, "done")
          /\ hist' = Record(j, [hist[j] EXCEPT !.exit = "internal"])
          /\ running' = 0
          /\ UNCHANGED dirs
    /\ UNCHANGED <<cfgVars, poolVars, ready, videos, filename, quality, loc,
                   processed>>

(* -------- generate_manim_code / generate_ai_manim_code (one stage) ------ *)
\* ai_generator.py 275: if not code and OPENROUTER_API_KEY
NeedsFallback_Always(c) == apiKey
\* the texts a job holds: its locals and the text of scene.py last rendered
HeldCodes(j) ==
    {loc[j].code, loc[j].manim_code, loc[j].fixed_code, loc[j].ai_fixed_code,
     loc[j].new_code, hist[j].lastText} \cap Codes

\* the program only stores the texts and compares them with each other, so
\* the texts are interchangeable: a text the job does not hold is taken to
\* be the first one it does not hold
NewCodes(j) ==
    HeldCodes(j)
    \cup {CodeNames[i] : i \in {k \in 1..NumCodes :
               /\ CodeNames[k] \notin HeldCodes(j)
               /\ \A m \in 1..(k - 1) : CodeNames[m] \in HeldCodes(j)}}

\* what the provider may answer: no answer (transport error), a non-200
\* status, or status 200 with a content
Responses(j) ==
    {[status |-> "exception", content |-> ""], [status |-> "500", content |-> ""]}
    \cup {[status |-> "200", content |-> c] : c \in NewCodes(j) \cup {"", " "}}

NeedsFallback(c) == ~Truthy(c) /\ apiKey

\* ai_generator.py 273: the call with the refined prompt
GenPrimary(j) ==
    /\ running = j
    /\ pc[j] = "gen"
    /\ \E resp \in Responses(j) :
         LET c == ProviderAnswer(resp)
             h == IF loc[j].gphase = "initial"
                  THEN [hist[j] EXCEPT !.generations = @ + 1]
                  ELSE [hist[j] EXCEPT !.tiers = Append(@, "regen")]
         IN
         /\ Continue(j, IF NeedsFallback(c) THEN "gen_fallback"
                        ELSE IF Truthy(c) THEN "lint" ELSE "gen_ret",
                     [loc[j] EXCEPT !.code = c, !.attempt = 0])
         /\ hist' = Record(j, [h EXCEPT !.stageCalls = 1,
                                        !.primaryCode = Truthy(c),
                                        !.lastLint = "none"])
    /\ UNCHANGED <<cfgVars, poolVars, ready, videos, filename, quality,
                   processed>>

\* ai_generator.py 275-278: the second call, with the old prompt
GenFallback(j) ==
    /\ running = j
    /\ pc[j] = "gen_fallback"
    /\ \E resp \in Responses(j) :
         LET c == ProviderAnswer(resp) IN
         Continue(j, IF Truthy(c) THEN "lint" ELSE "gen_ret",
                  [loc[j] EXCEPT !.code = c])
    /\ hist' = Record(j, [hist[j] EXCEPT !.stageCalls = @ + 1])
    /\ UNCHANGED <<cfgVars, poolVars, ready, videos, filename, quality,
                   processed>>

\* ai_generator.py 285-289: lint_code(code) at the head of the loop body
Lint(j) ==
    /\ running = j
    /\ pc[j] = "lint"
    /\ \E ok \in BOOLEAN :
         /\ Continue(j, IF ok THEN "gen_ret" ELSE "lint_fix", loc[j])
         /\ hist' = Record(j, [hist[j] EXCEPT
                                 !.lints = @ + 1,
                                 !.lastLint = IF ok THEN "ok" ELSE "rejected"])
    /\ UNCHANGED <<cfgVars, poolVars, ready, videos, filename, quality,
                   processed>>

\* the loop goes round again while attempt + 1 is in range(MAX_LINT_RETRIES)
AfterLintFix_OffByOne(a) == IF a < MAX_LINT_RETRIES THEN "lint" ELSE "gen_ret"
AfterLintFix(a) == IF a + 1 < MAX_LINT_RETRIES THEN "lint" ELSE "gen_ret"

\* ai_generator.py 298-301: code = fixed_code when the repair gave code,
\* else the loop is left with code as it was
KeptCode_Fixed(code, fixed) == fixed
KeptCode(code, fixed) == IF Truthy(fixed) THEN fixed ELSE code

\* ai_generator.py 294-301: refine_code_with_openrouter(..., "lint")
LintRepair(j) ==
    /\ running = j
    /\ pc[j] = "lint_fix"
    /\ \E resp \in Responses(j) :
         LET fixed == ProviderAnswer(resp) IN
         /\ Continue(j, IF Truthy(fixed) THEN AfterLintFix(loc[j].attempt)
                        ELSE "gen_ret",
                     [loc[j] EXCEPT !.code = KeptCode(@, fixed),
                                    !.attempt = IF Truthy(fixed) THEN @ + 1 ELSE @])
         /\ hist' = Record(j, [hist[j] EXCEPT
                                 !.lintRepairs = @ + 1,
                                 !.lastLint = IF Truthy(fixed) THEN "unchecked" ELSE @])
    /\ UNCHANGED <<cfgVars, poolVars, ready, videos, filename, quality,
                   processed>>

\* ai_generator.py 280, 303-305 and service.py 91-94: what the stage returns
Generated(c) == IF Truthy(c) THEN c ELSE NoneV

\* service.py 218-225: manim_code, used_ai = await generate_manim_code(concept)
AfterGenerate(j) ==
    /\ running = j
    /\ pc[j] = "gen_ret"
    /\ loc[j].gphase = "initial"
    /\ LET c == Generated(loc[j].code) IN
       IF Truthy(c)
       THEN /\ Continue(j, "write",
                        [loc[j] EXCEPT !.manim_code = c, !.used_ai = TRUE,
                                       !.code = NoneV, !.attempt = 0])
            /\ UNCHANGED hist
       ELSE Return(j, GenerationFailure(quality[j]), "generation", hist[j])
    /\ UNCHANGED <<cfgVars, poolVars, ready, videos, filename, quality,
                   processed>>

(* ----------------------------- rendering ------------------------------- *)
\* how subprocess.run(command, cwd=..., timeout=300) can end
SubprocessOutcomes ==
    {[kind |-> "exit", returncode |-> 0, stderr |-> ""]}
    \cup {[kind |-> "exit", returncode |-> 1, stderr |-> d] : d \in Diags \cup {""}}
    \cup {[kind |-> "timeout", returncode |-> 1, stderr |-> d] : d \in Diags \cup {""}}
    \cup {[kind |-> "exception", returncode |-> 1, stderr |-> ""]}

CwdMissing == [kind |-> "exception", returncode |-> 1, stderr |-> ""]

\* service.py 157-179: what _render_in_thread makes of the outcome
render_in_thread_TimeoutAsStderr(o) ==
    IF o.kind = "exception"
    THEN [success |-> FALSE,
          dict |-> [error |-> "Internal server error", details |-> "str(e)"]]
    ELSE IF o.returncode # 0
    THEN [success |-> FALSE,
          dict |-> [error |-> "Failed to generate animation",
                    details |-> IF o.stderr # "" THEN o.stderr
                                ELSE "Unknown error during animation generation"]]
    ELSE [success |-> TRUE, dict |-> [output_file |-> "videos_dir/filename.mp4"]]
render_in_thread(o) ==
    IF o.kind = "timeout"
    THEN [success |-> FALSE,
          dict |-> [error |-> "Animation generation timed out",
                    details |-> "The animation took too long to generate. Please try a simpler concept."]]
    ELSE IF o.kind = "exception"
    THEN [success |-> FALSE,
          dict |-> [error |-> "Internal server error", details |-> "str(e)"]]
    ELSE IF o.returncode # 0
    THEN [success |-> FALSE,
          dict |-> [error |-> "Failed to generate animation",
                    details |-> IF o.stderr # "" THEN o.stderr
                                ELSE "Unknown error during animation generation"]]
    ELSE [success |-> TRUE, dict |-> [output_file |-> "videos_dir/filename.mp4"]]

\* the text code_file holds for the render call that is awaited
CurrentText(l) ==
    CASE l.tier = "first" -> l.manim_code
      [] l.tier = "pattern" -> l.fixed_code
      [] l.tier = "ai" -> l.ai_fixed_code
      [] l.tier = "regen" -> l.new_code

\* lines 278, 309, 331, 383, 405: manim_code is the text that rendered; the
\* candidates are not read again
Rendered_KeepOriginal(l) ==
    [l EXCEPT !.fixed_code = NoneV, !.ai_fixed_code = NoneV, !.new_code = NoneV]
Rendered(l) ==
    [l EXCEPT !.manim_code = CurrentText(l), !.fixed_code = NoneV,
              !.ai_fixed_code = NoneV, !.new_code = NoneV]

\* code_file.write_text(...) (lines 229, 264, 296, 318, 370, 392)
WriteScene(j) ==
    /\ running = j
    /\ pc[j] = "write"
    /\ \/ /\ filename[j] \in dirs
          /\ Continue(j, IF loc[j].tier = "first" THEN "prep" ELSE "submit", loc[j])
          /\ UNCHANGED hist
       \/ /\ filename[j] \in dirs
          /\ RaiseInside(j, "OSError", hist[j])
       \/ /\ filename[j] \notin dirs
          /\ RaiseInside(j, "FileNotFoundError", hist[j])
    /\ UNCHANGED <<cfgVars, poolVars, ready, videos, filename, quality,
                   processed>>

\* lines 232-239: media_dir.mkdir(exist_ok=True) and the quality flag; the
\* dict lookup raises KeyError when quality is the invalid configured default
PrepareRender(j) ==
    /\ running = j
    /\ pc[j] = "prep"
    /\ IF quality[j] \in ValidQualities
       THEN /\ Continue(j, "submit", loc[j])
            /\ UNCHANGED hist
       ELSE RaiseInside(j, "KeyError", hist[j])
    /\ UNCHANGED <<cfgVars, poolVars, ready, videos, filename, quality,
                   processed>>

\* lines 147-155: loop.run_in_executor(self.executor, ...) and the await on
\* its future; the coroutine suspends and the loop is free
SubmitRender_FireAndForget(j) ==
    /\ running = j
    /\ pc[j] = "submit"
    /\ queue' = Append(queue, j)
    /\ pc' = Upd(pc, j, "locate")
    /\ UNCHANGED <<cfgVars, ready, running, executing, future, active, dirs,
                   videos, filename, quality, loc, result, processed, hist>>
SubmitRender(j) ==
    /\ running = j
    /\ pc[j] = "submit"
    /\ queue' = Append(queue, j)
    /\ pc' = Upd(pc, j, "await")
    /\ loc' = Upd(loc, j, [loc[j] EXCEPT !.render_result = NoRender])
    /\ running' = 0
    /\ UNCHANGED <<cfgVars, ready, executing, future, active, dirs, videos,
                   filename, quality, result, processed, hist>>

\* ThreadPoolExecutor(max_workers=max_workers): a submitted call is taken
\* only by an idle thread of the pool
WorkerFree_Unbounded == TRUE
WorkerFree == Cardinality(executing) < MaxWorkers

\* a pool thread takes the oldest submitted call and runs
\* _run_manim_subprocess; Popen fails at once when cwd does not exist
StartRender(j) ==
    /\ queue # <<>>
    /\ Head(queue) = j
    /\ WorkerFree
    /\ queue' = Tail(queue)
    /\ IF filename[j] \in dirs
       THEN /\ executing' = executing \cup {j}
            /\ hist' = Record(j, [hist[j] EXCEPT !.rendered = Append(@, loc[j].tier),
                                                 !.lastText = CurrentText(loc[j])])
            /\ UNCHANGED <<future, ready>>
       ELSE /\ future' = Upd(future, j, [state |-> "done", outcome |-> CwdMissing])
            /\ ready' = Append(ready, j)
            /\ hist' = Record(j,
                  [hist[j] EXCEPT !.rendered = Append(@, loc[j].tier),
                                  !.lastText = CurrentText(loc[j]),
                                  !.lastOutcome = CwdMissing,
                                  !.lastDiag = render_in_thread(CwdMissing).dict.details])
            /\ UNCHANGED executing
    /\ UNCHANGED <<cfgVars, running, active, dirs, videos, pc, filename,
                   quality, loc, result, processed>>

\* the subprocess ends; the future is set and the coroutine is runnable again
FinishRender(j) ==
    /\ j \in executing
    /\ executing' = executing \ {j}
    /\ \E o \in SubprocessOutcomes :
         /\ future' = Upd(future, j, [state |-> "done", outcome |-> o])
         /\ hist' = Record(j, [hist[j] EXCEPT
                         !.lastOutcome = o,
                         !.lastDiag = IF render_in_thread(o).success THEN NoneV
                                      ELSE render_in_thread(o).dict.details])
    /\ ready' = Append(ready, j)
    /\ UNCHANGED <<cfgVars, running, queue, active, dirs, videos, pc, filename,
                   quality, loc, result, processed>>

(* ---------------------- the render-failure escalation ------------------ *)
\* what follows the failed render of tier t: the pattern fixer after the
\* first render (254), the AI repair after the render of the pattern-fixed
\* code (283), the regeneration after the render of the AI-repaired code
\* (311, 385), the failure response after the render of the regenerated code
\* (337, 411)
NextTier_Retry(t) ==
    CASE t = "first" -> "pattern"
      [] t = "pattern" -> "ai_fix_a"
      [] t = "ai" -> "gen"
      [] t = "regen" -> "ai_fix_a"
NextTier_NoRegen(t) ==
    CASE t = "first" -> "pattern"
      [] t = "pattern" -> "ai_fix_a"
      [] t = "ai" -> "fail"
      [] t = "regen" -> "fail"
NextTier(t) ==
    CASE t = "first" -> "pattern"
      [] t = "pattern" -> "ai_fix_a"
      [] t = "ai" -> "gen"
      [] t = "regen" -> "fail"

\* the await of _render_in_thread returns (lines 242, 267, 298, 320, 372,
\* 394) and the branch on success that follows it
ResumeRender(j) ==
    /\ running = 0
    /\ ready # <<>>
    /\ Head(ready) = j
    /\ pc[j] = "await"
    /\ future[j].state = "done"
    /\ ready' = Tail(ready)
    /\ future' = Upd(future, j, NoFuture)
    /\ LET r == render_in_thread(future[j].outcome)
           l == [loc[j] EXCEPT !.render_result = r.dict]
       IN
       IF r.success
       THEN /\ Continue(j, "locate", Rendered(l))
            /\ UNCHANGED hist
       ELSE LET next == IF l.tier = "first" /\ ~(l.used_ai /\ "details" \in DOMAIN r.dict)
                        THEN "fail" ELSE NextTier(l.tier)
            IN
            CASE next = "fail" ->
                   Return(j, RenderFailure(r.dict, quality[j]), "render", hist[j])
              [] next = "gen" ->
                   Continue(j, "gen", [l EXCEPT !.gphase = "regen",
                                                !.fixed_code = NoneV,
                                                !.ai_fixed_code = NoneV])
                   /\ UNCHANGED hist
              [] OTHER ->
                   Continue(j, next, l) /\ UNCHANGED hist
    /\ UNCHANGED <<cfgVars, queue, executing, videos, filename, quality,
                   processed>>

\* lines 254-260 and 353: fix_common_manim_errors(manim_code, error_msg); the
\* rewritten text depends on the text of the code and of the diagnostic, it
\* is the same text or another one
PatternRepair(j) ==
    /\ running = j
    /\ pc[j] = "pattern"
    /\ \E fixed \in NewCodes(j) :
         IF fixed # loc[j].manim_code
         THEN Continue(j, "write", [loc[j] EXCEPT !.fixed_code = fixed, !.tier = "pattern"])
         ELSE Continue(j, "ai_fix_b", [loc[j] EXCEPT !.fixed_code = fixed])
    /\ hist' = Record(j, [hist[j] EXCEPT !.tiers = Append(@, "pattern")])
    /\ UNCHANGED <<cfgVars, poolVars, ready, videos, filename, quality,
                   processed>>

\* line 294 after a failed render of the pattern-fixed code, line 368 when
\* the pattern fixer changed nothing
AiFixAccepted(where, ai, fixed) ==
    IF where = "ai_fix_a" THEN Truthy(ai) /\ ai # fixed ELSE Truthy(ai)

\* lines 287-292 and 361-366: the broken_code and the error_message that
\* refine_code_with_openrouter is called with
AiRepairArgs_OriginalCode(where, l) ==
    [broken_code |-> l.manim_code, error_message |-> l.render_result.details]
AiRepairArgs(where, l) ==
    [broken_code |-> IF where = "ai_fix_a" THEN l.fixed_code ELSE l.manim_code,
     error_message |-> l.render_result.details]

\* lines 283-305 and 357-379: refine_code_with_openrouter(..., "render")
AiRepair(j) ==
    /\ running = j
    /\ pc[j] \in {"ai_fix_a", "ai_fix_b"}
    /\ \E resp \in Responses(j) :
         LET ai == ProviderAnswer(resp)
             h == [hist[j] EXCEPT !.tiers = Append(@, "ai")]
         IN
         IF AiFixAccepted(pc[j], ai, AiRepairArgs(pc[j], loc[j]).broken_code)
         THEN /\ Continue(j, "write", [loc[j] EXCEPT !.ai_fixed_code = ai, !.tier = "ai"])
              /\ hist' = Record(j, h)
         ELSE Return(j, RenderFailure(loc[j].render_result, quality[j]), "render", h)
    /\ UNCHANGED <<cfgVars, poolVars, ready, videos, filename, quality,
                   processed>>

\* lines 314-345 and 388-419: new_code, _ = await generate_manim_code(concept)
AfterRegenerate(j) ==
    /\ running = j
    /\ pc[j] = "gen_ret"
    /\ loc[j].gphase = "regen"
    /\ LET c == Generated(loc[j].code) IN
       IF Truthy(c)
       THEN /\ Continue(j, "write",
                        [loc[j] EXCEPT !.new_code = c, !.tier = "regen",
                                       !.code = NoneV, !.attempt = 0])
            /\ UNCHANGED hist
       ELSE Return(j, RenderFailure(loc[j].render_result, quality[j]), "render",
                   hist[j])
    /\ UNCHANGED <<cfgVars, poolVars, ready, videos, filename, quality,
                   processed>>

\* lines 436-442: possible_paths, relative to temp_dir
possible_paths_LowFirst ==
    <<"media/videos/scene/480p15/MainScene.mp4",
      "media/videos/scene/720p30/MainScene.mp4",
      "media/videos/scene/1080p60/MainScene.mp4",
      "media/videos/MainScene.mp4",
      "MainScene.mp4">>
possible_paths ==
    <<"media/videos/scene/1080p60/MainScene.mp4",
      "media/videos/scene/720p30/MainScene.mp4",
      "media/videos/scene/480p15/MainScene.mp4",
      "media/videos/MainScene.mp4",
      "MainScene.mp4">>

\* lines 452-453: the other files MainScene.mp4 under media_dir, in the order
\* os.walk(media_dir) comes to them: the top directory first
WalkPaths ==
    <<"media/MainScene.mp4", "media/videos/scene/2160p60/MainScene.mp4">>

\* a file MainScene.mp4 in the working directory of another job
OutsidePaths == {"../scene_2/media/videos/scene/480p15/MainScene.mp4"}

Range(f) == {f[i] : i \in DOMAIN f}

\* what the manim subprocess left: the files that exist, and the files
\* shutil.move cannot move
Artifacts ==
    [present : SUBSET (Range(possible_paths) \cup Range(WalkPaths) \cup OutsidePaths),
     unmovable : {{}, Range(WalkPaths)}
                 \cup {{f} : f \in Range(possible_paths) \cup Range(WalkPaths)}]

\* lines 444-462: the first of possible_paths that exists is moved, and an
\* exception of that move is not caught; when none exists the walk moves the
\* first file it can move
LocateVideo(a) ==
    LET listed == {i \in DOMAIN possible_paths : possible_paths[i] \in a.present}
        walked == {i \in DOMAIN WalkPaths : /\ WalkPaths[i] \in a.present
                                            /\ WalkPaths[i] \notin a.unmovable}
    IN IF listed # {}
       THEN IF possible_paths[Min(listed)] \in a.unmovable
            THEN [kind |-> "raise", source |-> NoneV, scanned |-> FALSE]
            ELSE [kind |-> "found", source |-> possible_paths[Min(listed)],
                  scanned |-> FALSE]
       ELSE IF walked # {}
            THEN [kind |-> "found", source |-> WalkPaths[Min(walked)],
                  scanned |-> TRUE]
            ELSE [kind |-> "missing", source |-> NoneV, scanned |-> TRUE]

LocateOutcomes == {LocateVideo(a).kind : a \in Artifacts}

\* lines 464-481 and 491-503: the response after the search
LocateResponse(kind, f, c, u, q) ==
    CASE kind = "found" -> Success(f, c, u, q)
      [] kind = "raise" -> InternalError("OSError", q)
      [] kind = "missing" -> ArtifactMissing(q)

\* lines 435-481: the known paths, the recursive scan, the move to
\* videos_dir/<filename>.mp4 and the success response; nothing is found when
\* the working directory is gone
Locate(j) ==
    /\ running = j
    /\ pc[j] = "locate"
    /\ \E kind \in LocateOutcomes :
         /\ kind = "missing" \/ filename[j] \in dirs
         /\ CASE kind = "found" ->
                   /\ videos' = videos \cup {filename[j]}
                   /\ Return(j, Success(filename[j], loc[j].manim_code,
                                        loc[j].used_ai, quality[j]),
                             "success", hist[j])
              [] kind = "raise" ->
                   /\ UNCHANGED videos
                   /\ RaiseInside(j, "OSError", hist[j])
              [] kind = "missing" ->
                   /\ UNCHANGED videos
                   /\ Return(j, ArtifactMissing(quality[j]), "artifact", hist[j])
    /\ UNCHANGED <<cfgVars, poolVars, ready, filename, quality, processed>>

(* --------------------- render_multiple_animations ---------------------- *)
WithConcept(r, c) ==
    [k \in DOMAIN r \cup {"concept"} |-> IF k = "concept" THEN c ELSE r[k]]

\* lines 531-541: one entry of processed_results
ProcessResult_FailTogether(i) ==
    IF \E k \in Jobs : pc[k] = "raised" \/ ~result[k].success
    THEN [success |-> FALSE, error |-> "Failed to generate animation",
          details |-> "sibling", concept |-> concepts[i]]
    ELSE WithConcept(result[i], concepts[i])
ProcessResult(i) ==
    IF pc[i] = "raised"
    THEN [success |-> FALSE, error |-> "Failed to generate animation",
          details |-> result[i].raised, concept |-> concepts[i]]
    ELSE WithConcept(result[i], concepts[i])

\* lines 527-543: gather returns when every coroutine has ended
Gather ==
    /\ processed = <<>>
    /\ running = 0
    /\ \A j \in Jobs : pc[j] \in {"done", "raised"}
    /\ processed' = [i \in Jobs |-> ProcessResult(i)]
    /\ UNCHANGED <<cfgVars, poolVars, ready, running, active, dirs, videos, pc,
                   filename, quality, loc, result, hist>>

Next ==
    \/ \E j \in Jobs : Begin(j)
    \/ \E j \in Jobs : MakeTempDir(j)
    \/ \E j \in Jobs : GenPrimary(j)
    \/ \E j \in Jobs : GenFallback(j)
    \/ \E j \in Jobs : Lint(j)
    \/ \E j \in Jobs : LintRepair(j)
    \/ \E j \in Jobs : AfterGenerate(j)
    \/ \E j \in Jobs : WriteScene(j)
    \/ \E j \in Jobs : PrepareRender(j)
    \/ \E j \in Jobs : SubmitRender(j)
    \/ \E j \in Jobs : StartRender(j)
    \/ \E j \in Jobs : FinishRender(j)
    \/ \E j \in Jobs : ResumeRender(j)
    \/ \E j \in Jobs : PatternRepair(j)
    \/ \E j \in Jobs : AiRepair(j)
    \/ \E j \in Jobs : AfterRegenerate(j)
    \/ \E j \in Jobs : Locate(j)
    \/ Gather

Spec == Init /\ [][Next]_vars

SpecBatch == InitBatch /\ [][Next]_vars

\* the event loop runs a coroutine that is ready, a pool thread takes a
\* submitted call, and every provider call, linter run and manim subprocess
\* returns or hits its timeout (30 s, 10 s, 300 s): some step is taken
\* whenever one can be
SpecBatchFair == InitBatch /\ [][Next]_vars /\ WF_vars(Next)

TypeOK ==
    /\ running \in 0..Len(concepts)
    /\ active \subseteq Ids
    /\ dirs \subseteq Ids
    /\ Cardinality(executing) <= MaxWorkers

(* ------------------------- Python string methods ----------------------- *)
\* s[a-1:b], "" when the slice is empty
Slice(s, a, b) ==
    IF a > b \/ a > Len(s) \/ b < 1 THEN ""
    ELSE SubSeq(s, IF a < 1 THEN 1 ELSE a, IF b > Len(s) THEN Len(s) ELSE b)

Char(s, i) == Slice(s, i, i)

\* s[i:].startswith(t), i counted from 1
StartsAt(s, t, i) ==
    i >= 1 /\ i + Len(t) - 1 <= Len(s) /\ SubSeq(s, i, i + Len(t) - 1) = t

\* t in s
In(t, s) == \E i \in 1..(Len(s) + 1 - Len(t)) : SubSeq(s, i, i + Len(t) - 1) = t

\* s.replace(old, new): the occurrences found left to right, not overlapping
RECURSIVE ReplaceFrom(_, _, _, _)
ReplaceFrom(s, old, new, i) ==
    LET hits == {k \in i..Len(s) : StartsAt(s, old, k)}
    IN IF hits = {} THEN Slice(s, i, Len(s))
       ELSE Slice(s, i, Min(hits) - 1) \o new
                \o ReplaceFrom(s, old, new, Min(hits) + Len(old))

replace(s, old, new) == ReplaceFrom(s, old, new, 1)

\* s.split('\n')
RECURSIVE SplitFrom(_, _)
SplitFrom(s, start) ==
    LET hits == {k \in start..Len(s) : Char(s, k) = "\n"}
    IN IF hits = {} THEN <<Slice(s, start, Len(s))>>
       ELSE <<Slice(s, start, Min(hits) - 1)>> \o SplitFrom(s, Min(hits) + 1)

split(s) == SplitFrom(s, 1)

\* sep.join(lines)
RECURSIVE join(_, _)
join(sep, lines) ==
    IF lines = <<>> THEN ""
    ELSE IF Len(lines) = 1 THEN lines[1]
    ELSE lines[1] \o sep \o join(sep, Tail(lines))

UpperCase == "ABCDEFGHIJKLMNOPQRSTUVWXYZ"
LowerCase == "abcdefghijklmnopqrstuvwxyz"
Digits == "0123456789"

CharsOf(s) == {Char(s, i) : i \in 1..Len(s)}

\* the character classes \s, \w and [\d.] of the re module
Whitespace == {" ", "\t", "\n", "\r", "\f"}
WordChars == CharsOf(UpperCase) \cup CharsOf(LowerCase) \cup CharsOf(Digits) \cup {"_"}
NumberChars == CharsOf(Digits) \cup {"."}
Letters == CharsOf(UpperCase) \cup CharsOf(LowerCase)

\* s.lower()
LowerChar(c) ==
    IF c \in CharsOf(UpperCase)
    THEN Char(LowerCase, CHOOSE i \in 1..26 : Char(UpperCase, i) = c)
    ELSE c

RECURSIVE lower(_)
lower(s) ==
    IF Len(s) = 0 THEN ""
    ELSE IF Len(s) = 1 THEN LowerChar(s)
    ELSE lower(SubSeq(s, 1, Len(s) \div 2)) \o lower(SubSeq(s, Len(s) \div 2 + 1, Len(s)))

\* the first index from i on whose character is outside the class, Len(s) + 1
\* when there is none: what a greedy cls* consumes
Skip(s, i, cls) ==
    IF i > Len(s) THEN i ELSE
    Min({k \in i..(Len(s) + 1) : k = Len(s) + 1 \/ Char(s, k) \notin cls})

\* the first index from i on whose character is inside the class
SkipTo(s, i, cls) ==
    IF i > Len(s) THEN i ELSE
    Min({k \in i..(Len(s) + 1) : k = Len(s) + 1 \/ Char(s, k) \in cls})

\* the last index before i, going backwards, whose character is inside the
\* class all the way: where a greedy cls+ that ends before i starts
SkipBack(s, i, cls) ==
    Min({k \in 1..i : \A m \in k..(i - 1) : Char(s, m) \in cls})

\* s.lstrip(), s.rstrip(), s.strip()
lstrip(s) == Slice(s, Skip(s, 1, Whitespace), Len(s))
rstrip(s) == Slice(s, 1, SkipBack(s, Len(s) + 1, Whitespace) - 1)
strip(s) == rstrip(lstrip(s))

\* ' ' * n
RECURSIVE Spaces(_)
Spaces(n) == IF n = 0 THEN "" ELSE " " \o Spaces(n - 1)

\* lines 582-583: indent_str
indent_str(line) == Spaces(Len(line) - Len(lstrip(line)))

(* ----------------------- fix_common_manim_errors ----------------------- *)
\* the tail  NAME\s*\(\s*lambda\s+(\w+)\s*:\s*([^,\)]+)  of the patterns of
\* lines 574, 600, 624 and 636, tried with NAME at index i
LambdaCall(s, i, name) ==
    LET paren == Skip(s, i + Len(name), Whitespace)
        lam == Skip(s, paren + 1, Whitespace)
        var == Skip(s, lam + 6, Whitespace)
        afterVar == Skip(s, var, WordChars)
        colon == Skip(s, afterVar, Whitespace)
        stop == SkipTo(s, colon + 1, {",", ")"})
    IN [ok |-> /\ StartsAt(s, name, i)
               /\ Char(s, paren) = "("
               /\ StartsAt(s, "lambda", lam)
               /\ var > lam + 6
               /\ afterVar > var
               /\ Char(s, colon) = ":"
               /\ stop > colon + 1,
        lambda_var |-> Slice(s, var, afterVar - 1),
        lambda_expr |-> strip(Slice(s, colon + 1, stop - 1)),
        end |-> stop]

\* re.search(r'(\w+)\.NAME...', line): the indices of NAME at which the
\* pattern matches
LambdaCalls(line, name) ==
    {i \in 3..Len(line) : /\ Char(line, i - 1) = "."
                          /\ Char(line, i - 2) \in WordChars
                          /\ LambdaCall(line, i, name).ok}

\* re.sub(r'NAME\s*\(\s*lambda\s+\w+\s*:[^,\)]+', 'NAME(graph', line)
RECURSIVE SubGraphFrom(_, _, _)
SubGraphFrom(line, name, i) ==
    LET hits == {k \in i..Len(line) : LambdaCall(line, k, name).ok}
    IN IF hits = {} THEN Slice(line, i, Len(line))
       ELSE Slice(line, i, Min(hits) - 1) \o name \o "(graph"
                \o SubGraphFrom(line, name, LambdaCall(line, Min(hits), name).end)

\* lines 579-608 and 617-644: what one line of the code becomes
GraphArgLine(line, name) ==
    IF In(name, line) /\ In("lambda", line) /\ LambdaCalls(line, name) # {}
    THEN LET i == Min(LambdaCalls(line, name))
             m == LambdaCall(line, i, name)
             axes_var == Slice(line, SkipBack(line, i - 1, WordChars), i - 2)
         IN <<indent_str(line) \o "graph = " \o axes_var \o ".plot(lambda "
                  \o m.lambda_var \o ": " \o m.lambda_expr \o ")",
              SubGraphFrom(line, name, 1)>>
    ELSE <<line>>

RECURSIVE FlatMap(_, _, _)
FlatMap(Op(_, _), lines, x) ==
    IF lines = <<>> THEN <<>>
    ELSE Op(lines[1], x) \o FlatMap(Op, Tail(lines), x)

\* lines 576-610 and 614-646
FixGraphArg(code, name) == join("\n", FlatMap(GraphArgLine, split(code), name))

\* lines 651-664
NumpyLine(line, x) ==
    IF In("from manim import", line) \/ In("import manim", line)
    THEN <<line, "import numpy as np">> ELSE <<line>>

has_numpy(code) ==
    \E i \in DOMAIN split(code) :
        In("import numpy", split(code)[i]) \/ In("from numpy", split(code)[i])

\* lines 655-664
FixNumpy_Prepend(code) ==
    IF \E i \in DOMAIN split(code) :
          In("from manim import", split(code)[i]) \/ In("import manim", split(code)[i])
    THEN join("\n", FlatMap(NumpyLine, split(code), ""))
    ELSE "import numpy as np\n" \o code
FixNumpy(code) == join("\n", FlatMap(NumpyLine, split(code), ""))

\* lines 670-680 and 696-706, in the order of the tables
color_fixes ==
    << <<"GOLD", "YELLOW">>, <<"GOLD_A", "YELLOW">>, <<"GOLD_B", "YELLOW">>,
       <<"GOLD_C", "YELLOW">>, <<"GOLD_D", "YELLOW">>, <<"GOLD_E", "YELLOW">>,
       <<"TEAL", "BLUE_C">>, <<"MAROON", "RED_C">>, <<"PURPLE", "PURPLE_C">> >>

method_fixes ==
    << <<"ShowCreation", "Create">>, <<"ShowCreationThenDestruction", "Create">>,
       <<"ShowCreationThenFadeOut", "Create">>, <<"ShowIncreasingSubsets", "Create">>,
       <<"ShowSubmobjectsOneByOne", "Create">>, <<"FadeInFromDown", "FadeIn">>,
       <<"FadeOutAndShift", "FadeOut">>, <<"FadeInFromLarge", "FadeIn">>,
       <<"GrowFromCenter", "GrowFromPoint">> >>

\* lines 682-686 and 708-712: the replacements in the order of the table,
\* each on the text the one before it left
RECURSIVE ApplyFixes(_, _)
ApplyFixes(table, code) ==
    IF table = <<>> THEN code
    ELSE ApplyFixes(Tail(table),
                    IF In(table[1][1], code)
                    THEN replace(code, table[1][1], table[1][2]) ELSE code)

\* re.sub(r'class \w+Scene\(Scene\)', 'class MainScene(Scene)', code)
SceneClassEnd(code, i) ==
    LET name == i + 6
        after == Skip(code, name, WordChars)
    IN IF /\ StartsAt(code, "class ", i)
          /\ after - name >= 6
          /\ Slice(code, after - 5, after - 1) = "Scene"
          /\ StartsAt(code, "(Scene)", after)
       THEN after + 7 ELSE 0

RECURSIVE RenameSceneFrom(_, _)
RenameSceneFrom(code, i) ==
    LET hits == {k \in i..Len(code) : SceneClassEnd(code, k) # 0}
    IN IF hits = {} THEN Slice(code, i, Len(code))
       ELSE Slice(code, i, Min(hits) - 1) \o "class MainScene(Scene)"
                \o RenameSceneFrom(code, SceneClassEnd(code, Min(hits)))

\* line 726
WrapLine(line, x) == IF strip(line) # "" THEN <<"        " \o line>> ELSE <<line>>

\* lines 722-728
FixMainScene_RenameOnly(code) == RenameSceneFrom(code, 1)
FixMainScene(code) ==
    IF RenameSceneFrom(code, 1) # code THEN RenameSceneFrom(code, 1)
    ELSE "from manim import *\n\nclass MainScene(Scene):\n    def construct(self):\n"
             \o join("\n", FlatMap(WrapLine, split(code), ""))

\* re.search(r'KEY\s*=\s*(CLS+)', line).group(1), NoneV when there is no match
KeywordMatches(line, key, cls) ==
    {i \in 1..Len(line) :
        /\ StartsAt(line, key, i)
        /\ LET eq == Skip(line, i + Len(key), Whitespace)
               val == Skip(line, eq + 1, Whitespace)
           IN Char(line, eq) = "=" /\ Skip(line, val, cls) > val}

KeywordArg(line, key, cls) ==
    IF KeywordMatches(line, key, cls) = {} THEN NoneV
    ELSE LET i == Min(KeywordMatches(line, key, cls))
             val == Skip(line, Skip(line, i + Len(key), Whitespace) + 1, Whitespace)
         IN Slice(line, val, Skip(line, val, cls) - 1)

\* ", ".join(params) for the parameters that were found
Params(ps) == join(", ", SelectSeq(ps, LAMBDA x : x # NoneV))

Param(name, v) == IF v = NoneV THEN NoneV ELSE name \o "=" \o v

\* lines 740-768
RectangleLine(line, x) ==
    IF In("Rectangle(", line)
       /\ \E pm \in {"bottom_left", "bottom_right", "top_left", "top_right"} : In(pm, line)
    THEN <<indent_str(line) \o "Rectangle("
              \o Params(<<"width=1", "height=0.5",
                          Param("color", KeywordArg(line, "color", WordChars)),
                          Param("fill_opacity",
                                KeywordArg(line, "fill_opacity", NumberChars))>>)
              \o ")">>
    ELSE <<line>>

FixRectangle(code) == join("\n", FlatMap(RectangleLine, split(code), ""))

\* lines 779-807
SquareLine(line, x) ==
    IF In("Square(", line) /\ \E pm \in {"width", "height", "radius"} : In(pm, line)
    THEN <<indent_str(line) \o "Square("
              \o Params(<<Param("side_length",
                                KeywordArg(line, "side_length", NumberChars)),
                          Param("color", KeywordArg(line, "color", WordChars)),
                          Param("fill_opacity",
                                KeywordArg(line, "fill_opacity", NumberChars))>>)
              \o ")">>
    ELSE <<line>>

FixSquare(code) == join("\n", FlatMap(SquareLine, split(code), ""))

(* --------------------- the rules of the repair engine ------------------ *)
\* the rules in the order of the if statements of lines 572-773
Rules ==
    <<"get_area", "get_riemann_rectangles", "numpy", "color", "method",
      "MainScene", "Rectangle", "Square">>

\* the condition on error_msg of each rule (lines 572, 613, 649, 667, 693,
\* 717, 731, 773)
DiagnosticMatches(rule, e) ==
    CASE rule = "get_area" ->
           In("get_area", e) /\ In("'function' object has no attribute", e)
      [] rule = "get_riemann_rectangles" ->
           In("get_riemann_rectangles", e) /\ In("'function' object", e)
      [] rule = "numpy" -> (In("np.", e) \/ In("numpy", e)) /\ In("NameError", e)
      [] rule = "color" -> In("color", lower(e)) \/ In("attribute", e)
      [] rule = "method" -> In("AttributeError", e)
      [] rule = "MainScene" -> In("MainScene", e) /\ In("not defined", e)
      [] rule = "Rectangle" ->
           /\ In("Rectangle", e)
           /\ \/ In("bottom_left", e) \/ In("bottom_right", e)
              \/ In("unexpected keyword argument", e)
      [] rule = "Square" -> In("Square", e) /\ In("unexpected keyword argument", e)

\* the lines of the code the rule rewrites (lines 580-585, 618-625, 653-662,
\* 741, 780-782); the two replacement tables and the MainScene rule work on
\* the whole text (lines 683-685, 709-711, 720)
ShapeLines(rule, code) ==
    LET lines == split(code)
    IN CASE rule \in {"get_area", "get_riemann_rectangles"} ->
              {i \in DOMAIN lines : /\ In(rule, lines[i]) /\ In("lambda", lines[i])
                                    /\ LambdaCalls(lines[i], rule) # {}}
         [] rule = "numpy" ->
              IF has_numpy(code) THEN {}
              ELSE {i \in DOMAIN lines : \/ In("from manim import", lines[i])
                                         \/ In("import manim", lines[i])}
         [] rule = "color" ->
              {i \in DOMAIN lines :
                  \E k \in DOMAIN color_fixes : In(color_fixes[k][1], lines[i])}
         [] rule = "method" ->
              {i \in DOMAIN lines :
                  \E k \in DOMAIN method_fixes : In(method_fixes[k][1], lines[i])}
         [] rule = "MainScene" ->
              IF In("class MainScene", code) THEN {} ELSE DOMAIN lines
         [] rule = "Rectangle" ->
              {i \in DOMAIN lines :
                  /\ In("Rectangle(", lines[i])
                  /\ \E pm \in {"bottom_left", "bottom_right", "top_left", "top_right"} :
                        In(pm, lines[i])}
         [] rule = "Square" ->
              {i \in DOMAIN lines :
                  /\ In("Square(", lines[i])
                  /\ \E pm \in {"width", "height", "radius"} : In(pm, lines[i])}

HasShape(rule, code) == ShapeLines(rule, code) # {}

\* the rules whose condition on the diagnostic holds
MatchingRules(e) == {k \in DOMAIN Rules : DiagnosticMatches(Rules[k], e)}

\* what the rule makes of the code when it is reached
RuleFix(rule, code) ==
    CASE rule \in {"get_area", "get_riemann_rectangles"} -> FixGraphArg(code, rule)
      [] rule = "numpy" -> FixNumpy(code)
      [] rule = "color" -> ApplyFixes(color_fixes, code)
      [] rule = "method" -> ApplyFixes(method_fixes, code)
      [] rule = "MainScene" -> FixMainScene(code)
      [] rule = "Rectangle" -> FixRectangle(code)
      [] rule = "Square" -> FixSquare(code)

\* whether the rule, once its condition on the diagnostic holds, reaches a
\* return statement (lines 610, 646, 664, 688, 714, 728, 770, 809)
Returns(rule, code) ==
    CASE rule \in {"get_area", "get_riemann_rectangles", "Rectangle"} -> TRUE
      [] rule = "numpy" -> ~has_numpy(code)
      [] rule = "MainScene" -> ~In("class MainScene", code)
      [] OTHER -> RuleFix(rule, code) # code

\* every rule whose condition holds rewrites what the rules before it left
RECURSIVE ApplyRulesFrom(_, _, _)
ApplyRulesFrom(k, code, error_msg) ==
    IF k > Len(Rules) THEN code
    ELSE ApplyRulesFrom(k + 1,
                        IF DiagnosticMatches(Rules[k], error_msg) /\ Returns(Rules[k], code)
                        THEN RuleFix(Rules[k], code) ELSE code,
                        error_msg)

fix_common_manim_errors_AllRules(code, error_msg) == ApplyRulesFrom(1, code, error_msg)

\* the rule of the engine that returns for this code and diagnostic, in the
\* order of the if statements of lines 572-810; "none" when line 812 is
\* reached
FiringRule(code, error_msg) ==
    IF In("get_area", error_msg) /\ In("'function' object has no attribute", error_msg)
    THEN "get_area"
    ELSE IF In("get_riemann_rectangles", error_msg) /\ In("'function' object", error_msg)
    THEN "get_riemann_rectangles"
    ELSE IF /\ (In("np.", error_msg) \/ In("numpy", error_msg))
            /\ In("NameError", error_msg)
            /\ ~has_numpy(code)
    THEN "numpy"
    ELSE IF /\ (In("color", lower(error_msg)) \/ In("attribute", error_msg))
            /\ ApplyFixes(color_fixes, code) # code
    THEN "color"
    ELSE IF In("AttributeError", error_msg) /\ ApplyFixes(method_fixes, code) # code
    THEN "method"
    ELSE IF /\ In("MainScene", error_msg) /\ In("not defined", error_msg)
            /\ ~In("class MainScene", code)
    THEN "MainScene"
    ELSE IF /\ In("Rectangle", error_msg)
            /\ \/ In("bottom_left", error_msg) \/ In("bottom_right", error_msg)
               \/ In("unexpected keyword argument", error_msg)
    THEN "Rectangle"
    ELSE IF /\ In("Square", error_msg) /\ In("unexpected keyword argument", error_msg)
            /\ FixSquare(code) # code
    THEN "Square"
    ELSE "none"

\* lines 556-812
fix_common_manim_errors(code, error_msg) ==
    LET rule == FiringRule(code, error_msg)
    IN CASE rule = "get_area" -> FixGraphArg(code, "get_area")
         [] rule = "get_riemann_rectangles" -> FixGraphArg(code, "get_riemann_rectangles")
         [] rule = "numpy" -> FixNumpy(code)
         [] rule = "color" -> ApplyFixes(color_fixes, code)
         [] rule = "method" -> ApplyFixes(method_fixes, code)
         [] rule = "MainScene" -> FixMainScene(code)
         [] rule = "Rectangle" -> FixRectangle(code)
         [] rule = "Square" -> FixSquare(code)
         [] OTHER -> code

(* ------------------------ lint_service.lint_code ----------------------- *)
\* lines 24-67; ruff and pylint are how the two subprocess.run calls end
lint_code_SkipWithoutRuff(code, ruff, pylint) ==
    CASE ruff.kind = "exit" ->
           IF ruff.returncode = 0 THEN [success |-> TRUE, errors |-> NoneV]
           ELSE [success |-> FALSE, errors |-> strip(ruff.stdout \o ruff.stderr)]
      [] ruff.kind = "timeout" ->
           [success |-> FALSE,
            errors |-> "Linting timeout - code may have infinite loops"]
      [] ruff.kind = "missing" -> [success |-> TRUE, errors |-> NoneV]
      [] OTHER -> [success |-> FALSE, errors |-> "Linting error: " \o ruff.message]
lint_code(code, ruff, pylint) ==
    CASE ruff.kind = "exit" ->
           IF ruff.returncode = 0 THEN [success |-> TRUE, errors |-> NoneV]
           ELSE [success |-> FALSE, errors |-> strip(ruff.stdout \o ruff.stderr)]
      [] ruff.kind = "timeout" ->
           [success |-> FALSE,
            errors |-> "Linting timeout - code may have infinite loops"]
      [] ruff.kind = "missing" ->
           IF pylint.kind = "exit"
           THEN IF ~In("error", lower(pylint.stdout)) /\ pylint.returncode = 0
                THEN [success |-> TRUE, errors |-> NoneV]
                ELSE [success |-> FALSE, errors |-> strip(pylint.stdout)]
           ELSE [success |-> TRUE, errors |-> NoneV]
      [] OTHER -> [success |-> FALSE, errors |-> "Linting error: " \o ruff.message]

\* what ruff check and pylint --errors-only print
RuffOutputs ==
    {"", "scene.py:6:13: F821 Undefined name 'np'\nFound 1 error.\n",
     "scene.py:5:9: E999 SyntaxError: unexpected EOF while parsing\nFound 1 error.\n"}

PylintOutputs ==
    {"", "scene.py:6:12: E0602: Undefined variable 'np' (undefined-variable)\n",
     "scene.py:5:9: E0001: Parsing failed (syntax-error)\n"}

\* how subprocess.run(["ruff", ...], timeout=10) ends
RuffOutcomes ==
    {[kind |-> "exit", returncode |-> rc, stdout |-> out, stderr |-> err] :
         rc \in {0, 1}, out \in RuffOutputs,
         err \in {"", "warning: No Python files found\n"}}
    \cup {[kind |-> "timeout"], [kind |-> "missing"],
          [kind |-> "error", message |-> "[Errno 13] Permission denied: 'ruff'"]}

\* how subprocess.run(["pylint", ...], timeout=10) ends
PylintOutcomes ==
    {[kind |-> "exit", returncode |-> rc, stdout |-> out] :
         rc \in {0, 2}, out \in PylintOutputs}
    \cup {[kind |-> "timeout"], [kind |-> "missing"]}

\* lines 27-30: how the code is written to the temporary file: it is written,
\* NamedTemporaryFile raises and no file is made, or the file is made and
\* write or flush raises
TempWrites == {"ok", "PermissionError", "UnicodeEncodeError"}

\* line 72: os.unlink(temp_file) removes the file or raises OSError
Unlinks == {"ok", "OSError"}

\* a subprocess that was never started
NotRun == [kind |-> "not run"]

\* lines 66-67: the result when the file could not be written
LintingError(write) == [success |-> FALSE, errors |-> "Linting error: " \o write]

\* lines 27-30 and 68-74: the temporary files that are left when lint_code
\* returns; temp_file is bound at line 30, after the write, and the finally
\* clause unlinks the file only when temp_file is bound
TempFilesLeft(write, unlink) ==
    CASE write = "PermissionError" -> {}
      [] write = "UnicodeEncodeError" -> {"tmpXXXXXXXX.py"}
      [] OTHER -> IF unlink = "ok" THEN {} ELSE {"tmpXXXXXXXX.py"}

(* ------------------------- prompt_refiner.py --------------------------- *)
\* lines 11-26
COLOR_MAP ==
    << <<"red", "#e07a5f">>, <<"blue", "#525893">>, <<"green", "#87c2a5">>,
       <<"black", "#343434">>, <<"white", "#ffffff">>, <<"yellow", "#f4d35e">>,
       <<"purple", "#9b5de5">>, <<"orange", "#f8961e">>, <<"brown", "#a0522d">>,
       <<"pink", "#ff69b4">>, <<"gray", "#808080">>, <<"grey", "#808080">>,
       <<"cyan", "#00ffff">>, <<"magenta", "#ff00ff">> >>

\* table.get(w, w)
Lookup(table, w) ==
    IF \E i \in DOMAIN table : table[i][1] = w
    THEN table[CHOOSE i \in DOMAIN table : table[i][1] = w][2]
    ELSE w

\* re.sub(r'\b(w1|w2|...)\b', f, s): every whole word w of s for which
\* key(w) is in the table is replaced by the table's entry
RECURSIVE SubWordsFrom(_, _, _, _)
SubWordsFrom(table, key(_), s, i) ==
    IF i > Len(s) THEN ""
    ELSE IF Char(s, i) \in WordChars
    THEN LET w == Slice(s, i, Skip(s, i, WordChars) - 1)
         IN (IF \E k \in DOMAIN table : table[k][1] = key(w)
             THEN Lookup(table, key(w)) ELSE w)
                \o SubWordsFrom(table, key, s, Skip(s, i, WordChars))
    ELSE Slice(s, i, SkipTo(s, i, WordChars) - 1)
             \o SubWordsFrom(table, key, s, SkipTo(s, i, WordChars))

Same(w) == w

\* lines 29-35
replace_named_colors_with_hex(prompt) == SubWordsFrom(COLOR_MAP, lower, prompt, 1)

\* lines 40-44
indicators ==
    <<"transform", "morph", "change into", "becomes", "turns into", "point to",
      "circle to", "square to", "convert", "→", "->", "into a", "to a", "evolve",
      "transition">>

\* lines 38-45
is_transformation_request(prompt) ==
    \E i \in DOMAIN indicators : In(indicators[i], lower(prompt))

\* lines 53-62: each separator pattern as whether whitespace must come before
\* and after it (\s+ or \s*) and the words between, a word given with the
\* letter that may follow it (transforms?)
separators ==
    << [ws |-> TRUE, words |-> << <<"to", "">> >>],
       [ws |-> FALSE, words |-> << <<"→", "">> >>],
       [ws |-> FALSE, words |-> << <<"->", "">> >>],
       [ws |-> TRUE, words |-> << <<"into", "">> >>],
       [ws |-> TRUE, words |-> << <<"becomes", "">> >>],
       [ws |-> TRUE, words |-> << <<"transform", "s">>, <<"to", "">> >>],
       [ws |-> TRUE, words |-> << <<"morph", "s">>, <<"to", "">> >>],
       [ws |-> TRUE, words |-> << <<"change", "s">>, <<"into", "">> >>] >>

\* where a word of a separator, with its optional letter, ends when it starts
\* at index i; 0 when it does not start there
WordEnd(s, i, w) ==
    IF ~StartsAt(s, w[1], i) THEN 0
    ELSE IF w[2] # "" /\ StartsAt(s, w[2], i + Len(w[1]))
    THEN i + Len(w[1]) + Len(w[2])
    ELSE i + Len(w[1])

\* where a match of the separator that starts at index i ends, 0 when there
\* is none: whitespace, a word, whitespace, and so on
RECURSIVE SepWordsEnd(_, _, _, _)
SepWordsEnd(s, i, sep, k) ==
    IF k > Len(sep.words) THEN i
    ELSE LET e == WordEnd(s, i, sep.words[k])
             after == Skip(s, e, Whitespace)
         IN IF e = 0 \/ (sep.ws /\ after = e) THEN 0
            ELSE SepWordsEnd(s, after, sep, k + 1)

SepEnd(s, i, sep) ==
    LET start == Skip(s, i, Whitespace)
    IN IF sep.ws /\ start = i THEN 0 ELSE SepWordsEnd(s, start, sep, 1)

\* re.split(sep_pattern, s)
RECURSIVE ReSplitFrom(_, _, _)
ReSplitFrom(s, i, sep) ==
    LET hits == {k \in i..Len(s) : SepEnd(s, k, sep) # 0}
    IN IF hits = {} THEN <<Slice(s, i, Len(s))>>
       ELSE <<Slice(s, i, Min(hits) - 1)>> \o ReSplitFrom(s, SepEnd(s, Min(hits), sep), sep)

\* re.sub(r'\b(transformation|into|to)\b.*', '', s)
CutAtWord(s, words) ==
    LET hits == {i \in 1..Len(s) :
                    /\ Char(s, i) \in WordChars
                    /\ (i = 1 \/ Char(s, i - 1) \notin WordChars)
                    /\ Slice(s, i, Skip(s, i, WordChars) - 1) \in words}
    IN IF hits = {} THEN s ELSE Slice(s, 1, Min(hits) - 1)

\* s.split()
RECURSIVE WordsFrom(_, _)
WordsFrom(s, i) ==
    LET start == Skip(s, i, Whitespace)
    IN IF start > Len(s) THEN <<>>
       ELSE <<Slice(s, start, SkipTo(s, start, Whitespace) - 1)>>
                \o WordsFrom(s, SkipTo(s, start, Whitespace))

\* w.isalpha()
isalpha(w) == w # "" /\ \A i \in 1..Len(w) : Char(w, i) \in Letters

\* lines 69-79: the entity a part gives, <<>> when it gives none
Entity(part, x) ==
    LET removed == SubWordsFrom(<< <<"a", "">>, <<"an", "">>, <<"the", "">>,
                                   <<"from", "">>, <<"change", "">>,
                                   <<"transform", "">>, <<"morph", "">> >>,
                                Same, strip(part), 1)
        cleaned == strip(CutAtWord(removed, {"transformation", "into", "to"}))
        words == SelectSeq(WordsFrom(cleaned, 1), LAMBDA w : Len(w) > 1 /\ isalpha(w))
    IN IF words = <<>> THEN <<>> ELSE <<words[1]>>

\* lines 65-84: the first separator that splits the prompt into parts that
\* give more than one entity decides
RECURSIVE SequenceFrom(_, _)
SequenceFrom(prompt_lower, k) ==
    IF k > Len(separators) THEN <<>>
    ELSE LET parts == ReSplitFrom(prompt_lower, 1, separators[k])
             sequence == FlatMap(Entity, parts, "")
         IN IF Len(parts) > 1 /\ Len(sequence) > 1 THEN sequence
            ELSE SequenceFrom(prompt_lower, k + 1)

\* lines 48-84
extract_transformation_sequence(prompt) == SequenceFrom(lower(prompt), 1)

\* lines 123-154, in the order of the dictionaries
educational_keywords ==
    << <<"explain", "Create a step-by-step educational animation with clear visual progression and text explanations">>,
       <<"prove", "Create an animated mathematical proof with step-by-step derivations using MathTex and transitions">>,
       <<"solve", "Animate the solving process step-by-step showing each mathematical operation with transforms">>,
       <<"derive", "Show the mathematical derivation process with animated equation transformations">>,
       <<"demonstrate", "Provide an animated demonstration with clear visual examples and smooth transitions">>,
       <<"teach", "Create an educational animation that teaches the concept with visual aids and text">>,
       <<"illustrate", "Illustrate the concept with visual examples, diagrams, and smooth animations">> >>

math_keywords ==
    << <<"quadratic", "Animate quadratic functions with parabola graphing, vertex highlighting, and smooth transitions">>,
       <<"limit", "Visualize limits with animated approaching values and epsilon-delta visualization">>,
       <<"integration", "Show integration as area calculation with animated Riemann sums and smooth filling">>,
       <<"differentiation", "Animate derivatives as changing slopes with tangent lines and smooth transitions">>,
       <<"trigonometry", "Create animated trigonometric visualizations with unit circle and smooth wave animations">>,
       <<"vector", "Animate vector operations in 2D/3D space with arrow animations and transformations">>,
       <<"matrix", "Display matrix operations with animated transformations and element-wise operations">>,
       <<"equation", "Display and animate mathematical equation solving with step-by-step transforms">>,
       <<"function", "Plot mathematical function with animated axes, grid, and smooth curve drawing">>,
       <<"graph", "Create animated graph with coordinate system, gridlines, and smooth plotting">> >>

shape_keywords ==
    << <<"circle", "Draw an animated circle with smooth FadeIn, rotation, and color effects">>,
       <<"square", "Draw an animated square with transformations, scaling, and color transitions">>,
       <<"triangle", "Draw an animated triangle with smooth entry and geometric properties">>,
       <<"rectangle", "Draw an animated rectangle with dimension labels and transformations">>,
       <<"polygon", "Draw an animated polygon with smooth construction and angle highlights">>,
       <<"line", "Draw animated lines with smooth drawing effect and arrow endpoints">>,
       <<"arrow", "Draw animated arrows with emphasis effects and smooth movements">> >>

\* the keywords of a dictionary the prompt contains, in the dictionary's order
Matches(keywords, prompt_lower) ==
    SelectSeq(keywords, LAMBDA kw : In(kw[1], prompt_lower))

\* lines 108-120
TransformationTemplate(sequence) ==
    IF Len(sequence) >= 4
    THEN "Create a complex animated transformation sequence: " \o join(" → ", sequence)
             \o ". Use Manim objects with smooth Transform animations, proper timing delays, and fade transitions between each step. Include color changes and scaling effects."
    ELSE IF Len(sequence) = 3
    THEN "Create a smooth animated transformation sequence: " \o sequence[1]
             \o " transforms to " \o sequence[2] \o " which then transforms to "
             \o sequence[3]
             \o ". Use appropriate Manim shapes with Transform animations, FadeOut/FadeIn transitions, and smooth timing."
    ELSE "Create a smooth animated transformation: " \o sequence[1]
             \o " transforms into " \o sequence[2]
             \o ". Use appropriate Manim shapes with Transform animation, color transitions, and smooth FadeIn/FadeOut effects."

DefaultInstruction ==
    "Show a simple title that says 'Welcome to Manim' with smooth fade-in animation."

Enhanced(enhancement, prompt, tail) ==
    enhancement \o ". Based on user request: '" \o prompt \o "'. " \o tail

\* lines 159-174
KeywordInstruction_MathFirst(prompt) ==
    LET edu == Matches(educational_keywords, lower(prompt))
        math == Matches(math_keywords, lower(prompt))
        shape == Matches(shape_keywords, lower(prompt))
    IN IF math # <<>>
       THEN Enhanced(math[1][2], prompt, "Include smooth transitions and visual effects.")
       ELSE IF edu # <<>>
       THEN Enhanced(edu[1][2], prompt,
                     "Use smooth FadeIn/FadeOut transitions throughout.")
       ELSE IF shape # <<>>
       THEN Enhanced(shape[1][2], prompt, "Use Transform and FadeIn/FadeOut effects.")
       ELSE "Create an animated Manim scene that illustrates: '" \o prompt
                \o "'. Use appropriate visual elements with smooth FadeIn/FadeOut transitions, Transform animations for morphing, and proper timing with run_time parameters."
KeywordInstruction(prompt) ==
    LET edu == Matches(educational_keywords, lower(prompt))
        math == Matches(math_keywords, lower(prompt))
        shape == Matches(shape_keywords, lower(prompt))
    IN IF edu # <<>>
       THEN Enhanced(edu[1][2], prompt,
                     "Use smooth FadeIn/FadeOut transitions throughout.")
       ELSE IF math # <<>>
       THEN Enhanced(math[1][2], prompt, "Include smooth transitions and visual effects.")
       ELSE IF shape # <<>>
       THEN Enhanced(shape[1][2], prompt, "Use Transform and FadeIn/FadeOut effects.")
       ELSE "Create an animated Manim scene that illustrates: '" \o prompt
                \o "'. Use appropriate visual elements with smooth FadeIn/FadeOut transitions, Transform animations for morphing, and proper timing with run_time parameters."

\* lines 87-174
refine_prompt(prompt) ==
    IF strip(prompt) = "" THEN DefaultInstruction
    ELSE LET p == replace_named_colors_with_hex(strip(prompt))
             sequence == IF is_transformation_request(p)
                         THEN extract_transformation_sequence(p) ELSE <<>>
         IN IF Len(sequence) >= 2 THEN TransformationTemplate(sequence)
            ELSE KeywordInstruction(p)

(* ------------------- calls of the helper functions --------------------- *)
\* the head of a generated scene
SceneHead == "from manim import *\n\nclass MainScene(Scene):\n    def construct(self):\n"

\* a get_area call that passes an inline lambda, by its parts
AreaShapes ==
    [indent : {"", "        "}, target : {"area = "}, axes : {"axes", "self.axes"},
     lambda_var : {"x"}, body : {"x**2", "np.sin(x)"},
     rest : {")", ", x_range=[0, 2])"}]

AreaLine(sh, name) ==
    sh.indent \o sh.target \o sh.axes \o "." \o name \o "(lambda " \o sh.lambda_var
        \o ": " \o sh.body \o sh.rest

AreaCode(sh, name) == SceneHead \o AreaLine(sh, name) \o "\n        self.add(area)"

\* the bodies of the scenes the engine is called with
SceneBodies ==
    {"        c = Circle(color=GOLD_A)\n        self.play(ShowCreationThenDestruction(c))",
     "        c = Circle(color=GOLD_E)\n        self.play(ShowCreationThenFadeOut(c))",
     "        c = Circle(color=GOLD)\n        self.play(ShowCreation(c))",
     "        c = Circle(color=PURPLE_C)\n        self.play(Create(c))",
     "        c = Circle(color=YELLOW)\n        self.play(FadeInFromDown(c))",
     "        c = Dot(color=TEAL).move_to([np.sin(1), 0, 0])\n        self.add(c)",
     "        r = Rectangle(bottom_left=[0, 0], top_right=[1, 1], color=MAROON, fill_opacity=0.5)\n        self.add(r)",
     "        s = Square(width=2, color=BLUE, side_length=2.5)\n        self.add(s)",
     "        self.wait()"}

\* code without a class MainScene
OtherCodes ==
    {"from manim import *\n\nclass DemoScene(Scene):\n    def construct(self):\n        self.add(Circle(color=TEAL))",
     "from manim import *\n\nclass DemoScene(Scene):\n    def construct(self):\n        self.wait()",
     "from manim import *\n\nclass Demo(Scene):\n    def construct(self):\n        self.wait()",
     "c = Circle()\n\nself.add(c)",
     "import numpy as np\nfrom manim import *\nc = Dot([np.sin(1), 0, 0])"}

\* diagnostics of a failed render: the source line and the last line of the
\* traceback manim wrote
FixDiags ==
    {"area = axes.get_area(f)\nAttributeError: 'function' object has no attribute 'get_start'",
     "r = axes.get_riemann_rectangles(f)\nAttributeError: 'function' object has no attribute 't_min'",
     "c = Dot([np.sin(1), 0, 0])\nNameError: name 'np' is not defined",
     "c = Circle(color=GOLD_A)\nNameError: name 'GOLD_A' is not defined",
     "AttributeError: module 'manim' has no attribute 'ShowCreation'",
     "NameError: name 'MainScene' is not defined",
     "Circle(color=TEAL)\nNameError: name 'MainScene' is not defined",
     "TypeError: Rectangle.__init__() got an unexpected keyword argument 'bottom_left'",
     "TypeError: Square.__init__() got an unexpected keyword argument 'width'",
     "ZeroDivisionError: division by zero"}

FixCalls ==
    {[fn |-> "fix", code |-> AreaCode(sh, name), error_msg |-> d, pass |-> 0,
      shape |-> sh, name |-> name] :
         sh \in AreaShapes, name \in {"get_area", "get_riemann_rectangles"}, d \in FixDiags}
    \cup {[fn |-> "fix", code |-> c, error_msg |-> d, pass |-> 0,
           shape |-> NoneV, name |-> NoneV] :
              c \in {SceneHead \o b : b \in SceneBodies} \cup OtherCodes, d \in FixDiags}

LintCalls ==
    {[fn |-> "lint", code |-> SceneHead \o "        self.wait()", write |-> "ok",
      ruff |-> r, pylint |-> q, unlink |-> u, pass |-> 0] :
         r \in RuffOutcomes, q \in PylintOutcomes, u \in Unlinks}
    \cup {[fn |-> "lint", code |-> SceneHead \o "        self.wait()", write |-> w,
           ruff |-> NotRun, pylint |-> NotRun, unlink |-> "ok", pass |-> 0] :
              w \in TempWrites \ {"ok"}}

\* names that are in none of the vocabularies of prompt_refiner.py
Entities == <<"dot", "star", "ring", "blob", "cross", "heart">>

\* a prompt that names a chain of entities, by its parts
RefineShapes ==
    [verb : {"", "transform ", "Morph a red "}, chain : 1..MaxChain,
     sep : {" to a ", " -> ", " becomes "},
     topic : {"", " and explain the quadratic equation"}]

RefinePrompt(sh) ==
    sh.verb \o join(sh.sep, SubSeq(Entities, 1, sh.chain)) \o sh.topic

FreePrompts ==
    {"", "   ", "explain the quadratic formula", "Solve x squared",
     "the limit of a function", "draw a Red circle", "pythagorean theorem",
     "Explain how to transform a circle into a square", "point to the graph",
     "outline of a proof", "  plot the graph  "}

RefineCalls ==
    {[fn |-> "refine", prompt |-> RefinePrompt(sh), pass |-> 0, chain |-> sh.chain,
      entities |-> SubSeq(Entities, 1, sh.chain)] : sh \in RefineShapes}
    \cup {[fn |-> "refine", prompt |-> f, pass |-> 0, chain |-> 0,
           entities |-> <<>>] : f \in FreePrompts}

\* the search for the video of job 1 after a render that succeeded
LocateCalls ==
    {[fn |-> "locate", artifacts |-> a, filename |-> 1, pass |-> 0] : a \in Artifacts}

Calls == FixCalls \cup LintCalls \cup RefineCalls \cup LocateCalls

InitFn ==
    /\ call \in Calls
    /\ ret = NoneV
    /\ tempfiles = {}
    /\ InitPipeline({<<>>}, {"medium"}, {"low"})
    /\ apiKey

\* service.py 262 and 351: the engine is called
FixCommonManimErrors ==
    /\ call.fn = "fix"
    /\ call.pass = 0
    /\ ret' = fix_common_manim_errors(call.code, call.error_msg)
    /\ call' = [call EXCEPT !.pass = 1]
    /\ UNCHANGED <<pipeVars, tempfiles>>

\* the engine is called on what it returned, with the same diagnostic
FixCommonManimErrorsAgain ==
    /\ call.fn = "fix"
    /\ call.pass = 1
    /\ ret' = fix_common_manim_errors(ret, call.error_msg)
    /\ call' = [call EXCEPT !.pass = 2, !.code = ret]
    /\ UNCHANGED <<pipeVars, tempfiles>>

\* ai_generator.py 286: the linter is called
LintCode ==
    /\ call.fn = "lint"
    /\ call.pass = 0
    /\ ret' = IF call.write = "ok" THEN lint_code(call.code, call.ruff, call.pylint)
              ELSE LintingError(call.write)
    /\ tempfiles' = tempfiles \cup TempFilesLeft(call.write, call.unlink)
    /\ call' = [call EXCEPT !.pass = 1]
    /\ UNCHANGED pipeVars

\* service.py 286 and 360, ai_generator.py 269: the prompt is refined
RefinePromptCall ==
    /\ call.fn = "refine"
    /\ call.pass = 0
    /\ ret' = refine_prompt(call.prompt)
    /\ call' = [call EXCEPT !.pass = 1]
    /\ UNCHANGED <<pipeVars, tempfiles>>

\* service.py 435-481: the video is searched for and moved to
\* videos_dir/<filename>.mp4
LocateVideoCall ==
    /\ call.fn = "locate"
    /\ call.pass = 0
    /\ LET r == LocateVideo(call.artifacts)
       IN /\ ret' = [kind |-> r.kind, source |-> r.source, scanned |-> r.scanned,
                     response |-> LocateResponse(r.kind, call.filename,
                                                 SceneHead \o "        self.wait()",
                                                 TRUE, "low")]
          /\ videos' = IF r.kind = "found" THEN videos \cup {call.filename} ELSE videos
    /\ call' = [call EXCEPT !.pass = 1]
    /\ UNCHANGED <<apiKey, default_quality, concepts, qualityArg, active, dirs,
                   ready, running, queue, executing, future, pc, filename,
                   quality, loc, result, processed, hist, tempfiles>>

NextFn ==
    \/ LocateVideoCall
    \/ FixCommonManimErrors
    \/ FixCommonManimErrorsAgain
    \/ LintCode
    \/ RefinePromptCall

SpecFn == InitFn /\ [][NextFn]_vars

(* ------------------------------ properties ----------------------------- *)
InSeq(x, s) == \E i \in DOMAIN s : s[i] = x

IsPrefix(s, t) == Len(s) <= Len(t) /\ \A i \in DOMAIN s : s[i] = t[i]

TierOrder == <<"pattern", "ai", "regen">>

TierRank(t) ==
    CASE t = "first" -> 0 [] t = "pattern" -> 1 [] t = "ai" -> 2 [] t = "regen" -> 3

\* the generation stages (initial generation, regeneration) a job has entered
GenStages(h) == h.generations + (IF InSeq("regen", h.tiers) THEN 1 ELSE 0)

\* the stage entries of a job: generate, lint, lint repair, render, and the
\* three repair tiers
Stages(h) == h.generations + h.lints + h.lintRepairs + Len(h.rendered) + Len(h.tiers)

C2_NeverRaises == \A j \in Jobs : pc[j] # "raised"

\* C3: render_animation never returns success=true with a code that is
\* empty or absent.
C3_SuccessHasCode ==
    \A j \in Jobs :
        (pc[j] = "done" /\ result[j].success)
            => /\ "code" \in DOMAIN result[j]
               /\ result[j].code # NoneV
               /\ result[j].code # ""

\* a call returned success with the regenerated code
C3_Witness ==
    \E j \in Jobs :
        /\ pc[j] = "done"
        /\ result[j].success
        /\ result[j].code \in Codes
        /\ hist[j].generations = 1
        /\ InSeq("regen", hist[j].tiers)

\* C4 (as stated): with no provider configured and a concept a template
\* matches, render_animation goes on with the template code: it does not end
\* with the generation failure.
C4_TemplateFallback ==
    \A j \in Jobs :
        (pc[j] = "done" /\ ~apiKey /\ select_template(concepts[j]) # NoneV)
            => ~(/\ "error" \in DOMAIN result[j]
                 /\ result[j].error = "Failed to generate code template")

\* C5 (as stated): the lint-repair call is made at most 2 times per job.
C5_TwoLintRepairsPerJob == \A j \in Jobs : hist[j].lintRepairs <= 2

\* C5 (amended): the lint-repair call is made at most MAX_LINT_RETRIES times
\* per generation stage; a job has at most two generation stages (the initial
\* generation and the regeneration tier), so at most 4 calls per job.
C5_TwoLintRepairsPerStage ==
    \A j \in Jobs :
        /\ GenStages(hist[j]) <= 2
        /\ hist[j].lintRepairs <= 2 * GenStages(hist[j])

C5_Witness == \E j \in Jobs : hist[j].lintRepairs = 4

\* C6: the repair tiers run in the order pattern, AI repair, regeneration,
\* each at most once and only after a render has failed; each is followed by
\* at most one render, so a job starts at most 4 manim subprocesses.
C6_TierOrder ==
    \A j \in Jobs :
        LET h == hist[j] IN
        /\ IsPrefix(h.tiers, TierOrder)
        /\ h.tiers # <<>> => h.rendered # <<>>
        /\ Len(h.rendered) <= 4
        /\ \A i \in DOMAIN h.rendered :
              /\ h.rendered[i] # "first" => InSeq(h.rendered[i], h.tiers)
              /\ \A k \in DOMAIN h.rendered :
                    i < k => TierRank(h.rendered[i]) < TierRank(h.rendered[k])

C6_Witness ==
    \E j \in Jobs :
        /\ hist[j].tiers = TierOrder
        /\ hist[j].rendered = <<"first", "pattern", "ai", "regen">>

\* C7 (as stated): a job that entered the AI repair tier is not marked
\* failed before the regeneration tier has been tried.
C7_RegenBeforeFailure ==
    \A j \in Jobs :
        (pc[j] = "done" /\ hist[j].exit = "render" /\ InSeq("ai", hist[j].tiers))
            => InSeq("regen", hist[j].tiers)

\* C7 (amended): the regeneration tier is tried exactly when the code of the
\* AI repair was rendered and that render failed; a job whose AI repair gave
\* no code (or, after a pattern-repair retry, the same code) is marked failed
\* without regeneration. The regenerated code is rendered at most once.
C7_RegenAfterFailedAiRender ==
    \A j \in Jobs :
        LET h == hist[j] IN
        /\ InSeq("regen", h.tiers) => InSeq("ai", h.rendered)
        /\ InSeq("regen", h.rendered) => InSeq("regen", h.tiers)
        /\ (pc[j] = "done" /\ h.exit = "render")
              => (InSeq("regen", h.tiers) <=> InSeq("ai", h.rendered))

\* failed at the AI repair tier, no regeneration
C7_Witness ==
    \E j \in Jobs :
        /\ pc[j] = "done"
        /\ hist[j].exit = "render"
        /\ hist[j].tiers = <<"pattern", "ai">>
        /\ hist[j].rendered = <<"first", "pattern">>

\* C8: a job that ends with a render failure returns success=false, an error,
\* and as details the diagnostic of the last manim subprocess run for it.
C8_LastDiagnostic ==
    \A j \in Jobs :
        (pc[j] = "done" /\ hist[j].exit = "render")
            => /\ result[j].success = FALSE
               /\ "error" \in DOMAIN result[j]
               /\ result[j].error \in {"Failed to generate animation",
                                       "Animation generation timed out",
                                       "Internal server error"}
               /\ "details" \in DOMAIN result[j]
               /\ result[j].details = hist[j].lastDiag

\* all four renders failed, the last one with the stderr of manim
C8_Witness ==
    \E j \in Jobs :
        /\ pc[j] = "done"
        /\ hist[j].exit = "render"
        /\ Len(hist[j].rendered) = 4
        /\ result[j].details \in Diags

\* C9 (as stated): a job has at most 6 stage entries.
C9_SixStages == \A j \in Jobs : Stages(hist[j]) <= 6

\* C9 (amended): a job has at most 16 stage entries: 1 generation, 2 lints
\* and 2 lint repairs in each of the two generation stages, 4 renders and
\* the 3 repair tiers.
C9_SixteenStages == \A j \in Jobs : Stages(hist[j]) <= 16

C9_Witness == \E j \in Jobs : Stages(hist[j]) = 16

C11_PoolBound ==
    /\ Cardinality(executing) <= MaxWorkers
    /\ \A j \in Jobs : j \in executing => ~InSeq(j, queue)

\* the pool is full and a render waits
C11_Witness ==
    /\ Cardinality(executing) = MaxWorkers
    /\ queue # <<>>

\* the states in which a coroutine is at a call of requests.post (provider)
\* or subprocess.run (linter)
BlockingCalls == {"gen", "gen_fallback", "lint", "lint_fix", "ai_fix_a", "ai_fix_b"}

\* C12 (as stated): while a job waits on a provider call or on the linter
\* subprocess, the event loop is free to run a sibling that is ready.
C12_LoopNotBlocked ==
    \A j \in Jobs :
        (pc[j] \in BlockingCalls /\ ready # <<>>) => running = 0

\* C13 (as stated): every result with success=false carries an error and a
\* details field, for every failure class.
C13_ErrorAndDetails ==
    \A j \in Jobs :
        (pc[j] = "done" /\ ~result[j].success)
            => /\ "error" \in DOMAIN result[j]
               /\ "details" \in DOMAIN result[j]

\* C13 (amended): every result with success=false carries an error; a render
\* failure and an internal failure carry a details field, a generation
\* failure and a missing artifact carry none.
C13_DetailsByFailureClass ==
    \A j \in Jobs :
        (pc[j] = "done" /\ ~result[j].success)
            => /\ "error" \in DOMAIN result[j]
               /\ result[j].error # ""
               /\ hist[j].exit \in {"generation", "render", "artifact", "internal"}
               /\ ("details" \in DOMAIN result[j])
                     <=> hist[j].exit \in {"render", "internal"}

\* an internal failure after a render, with its details
C13_Witness ==
    \E j \in Jobs :
        /\ pc[j] = "done"
        /\ hist[j].exit = "internal"
        /\ hist[j].rendered # <<>>
        /\ result[j].details = "OSError"

\* C14 (as stated): every result of render_animation and every element of
\* the result of render_multiple_animations echoes the quality of the job:
\* the requested one when it is low, medium or high, else the default.
C14_QualityEchoed ==
    /\ \A j \in Jobs :
          pc[j] = "done" =>
             /\ "render_quality" \in DOMAIN result[j]
             /\ result[j].render_quality = ResolveQuality(qualityArg)
    /\ processed # <<>> =>
          \A i \in Jobs :
             /\ "render_quality" \in DOMAIN processed[i]
             /\ processed[i].render_quality = ResolveQuality(qualityArg)

\* the errors _render_in_thread gives for a failed subprocess
RenderErrors ==
    {render_in_thread(o).dict.error :
        o \in {x \in SubprocessOutcomes : ~render_in_thread(x).success}}

\* C15: after a render that succeeded, the job only returns: no repair tier
\* and no further render; when no MainScene.mp4 is found it returns
\* success=false with the error 'Generated video file not found', which is
\* none of the errors of a failed render subprocess.
C15_ArtifactMissing ==
    [][\A j \in Jobs :
          pc[j] = "locate" =>
             /\ pc'[j] \in {"locate", "done"}
             /\ hist'[j].rendered = hist[j].rendered
             /\ hist'[j].tiers = hist[j].tiers
             /\ (pc'[j] = "done" /\ hist'[j].exit = "artifact") =>
                   /\ result'[j].success = FALSE
                   /\ result'[j].error = "Generated video file not found"
                   /\ result'[j].error \notin RenderErrors]_vars

\* the artifact was missing after the render of a repaired code succeeded
C15_Witness ==
    \E j \in Jobs :
        /\ pc[j] = "done"
        /\ hist[j].exit = "artifact"
        /\ hist[j].tiers = <<"pattern", "ai">>
        /\ hist[j].lastDiag = NoneV

\* C16 (as stated): code the static analyzer rejected, with the repair
\* budget exhausted or no code from the repair, is not rendered: no manim
\* subprocess is started for the code of a generation stage whose last
\* lint verdict is a rejection.
C16_NoRenderOfRejectedCode ==
    \A j \in Jobs :
        (pc[j] = "await" /\ loc[j].tier \in {"first", "regen"})
            => hist[j].lastLint # "rejected"

\* C16 (amended): a generation stage that linted its code returns code,
\* whatever the linter and the lint repair answered; a job ends with the
\* generation failure only when no code was generated, and there is no
\* lint-failure outcome.
C16_LintNeverFailsTheJob ==
    \A j \in Jobs :
        /\ (pc[j] = "gen_ret" /\ hist[j].lastLint # "none")
              => Generated(loc[j].code) \in Codes
        /\ hist[j].exit = "generation" => hist[j].lastLint = "none"
        /\ pc[j] = "done" =>
              hist[j].exit \in {"generation", "render", "artifact", "internal", "success"}

\* the manim subprocess is started for the code the linter rejected
C16_Witness ==
    \E j \in Jobs :
        /\ pc[j] = "await"
        /\ loc[j].tier = "first"
        /\ hist[j].lastLint = "rejected"
        /\ hist[j].lintRepairs >= 1

\* C17: when the generation stage of a job yields no code (no provider
\* configured, or no code from the primary and the fallback call), the job
\* ends failed and no manim subprocess is ever started for it; no subprocess
\* is ever started for an empty code.
C17_NoCodeNoRender ==
    \A j \in Jobs :
        /\ hist[j].exit = "generation" =>
              /\ result[j].success = FALSE
              /\ hist[j].rendered = <<>>
              /\ j \notin executing
              /\ ~InSeq(j, queue)
        /\ (pc[j] = "gen_ret" /\ loc[j].gphase = "initial" /\ loc[j].code \in {NoneV, ""})
              => hist[j].rendered = <<>>
        /\ pc[j] \in {"write", "prep", "submit", "await"}
              => CurrentText(loc[j]) \notin {NoneV, ""}

\* the provider is configured and neither call gave code
C17_Witness ==
    \E j \in Jobs :
        /\ pc[j] = "done"
        /\ hist[j].exit = "generation"
        /\ hist[j].stageCalls = 2

\* C18 (as stated): in one generation stage the generation call is made at
\* most twice, the second one exactly when the first gave no code.
C18_FallbackIffNoCode ==
    \A j \in Jobs :
        /\ hist[j].stageCalls <= 2
        /\ (hist[j].stageCalls >= 1 /\ pc[j] # "gen_fallback")
              => (hist[j].stageCalls = 2 <=> ~hist[j].primaryCode)

\* C18 (amended): the second call is made exactly when the first gave no
\* code and the provider's API key is configured.
C18_FallbackIffNoCodeAndKey ==
    \A j \in Jobs :
        /\ hist[j].stageCalls <= 2
        /\ (hist[j].stageCalls >= 1 /\ pc[j] # "gen_fallback")
              => (hist[j].stageCalls = 2 <=> (~hist[j].primaryCode /\ apiKey))

\* the fallback call of the regeneration stage gave the code
C18_Witness ==
    \E j \in Jobs :
        /\ pc[j] = "lint"
        /\ hist[j].stageCalls = 2
        /\ InSeq("regen", hist[j].tiers)

\* C20 (as stated): two jobs in flight at the same time have distinct ids.
C20_DistinctIds ==
    \A i \in Jobs : \A j \in Jobs :
        (i # j /\ filename[i] # 0 /\ filename[j] # 0
              /\ pc[i] # "done" /\ pc[j] # "done")
            => filename[i] # filename[j]

\* the status of a job, read off the position of render_animation: 0 pending
\* (before the job is set up), 1 generating, 2 lint repair, 3 rendering (the
\* first subprocess), 4 render repair (pattern repair, AI repair and
\* regeneration, with the renders they lead to), 5 succeeded or failed
Status(p, l) ==
    CASE p \in {"done", "raised"} -> 5
      [] p \in {"start", "mkdir"} -> 0
      [] p \in {"pattern", "ai_fix_a", "ai_fix_b"} -> 4
      [] l.gphase = "regen" \/ l.tier # "first" -> 4
      [] p \in {"gen", "gen_fallback"} -> 1
      [] p = "lint" -> IF l.attempt = 0 THEN 1 ELSE 2
      [] p \in {"lint_fix", "gen_ret"} -> 2
      [] OTHER -> 3

C26_Terminates ==
    <>(/\ processed # <<>>
       /\ \A i \in Jobs : processed[i].success \in BOOLEAN)

\* a batch of two jobs that share the worker pool completed
C26_Witness ==
    /\ Len(concepts) = 2
    /\ processed # <<>>
    /\ \A j \in Jobs : pc[j] = "done"
    /\ \E j \in Jobs : result[j].success

\* C27 (as stated): after a subprocess timeout the diagnostics of the failed
\* attempt are the captured standard-error text.
C27_TimeoutDetailsAreStderr ==
    \A j \in Jobs :
        (hist[j].lastOutcome.kind = "timeout" /\ "error" \in DOMAIN loc[j].render_result)
            => loc[j].render_result.details = hist[j].lastOutcome.stderr

\* C27 (amended): after a subprocess timeout the attempt fails with the
\* fixed timeout message as diagnostics, and a failed first attempt enters
\* pattern repair whether the subprocess timed out or exited nonzero.
C27_TimeoutFixedMessage ==
    \A j \in Jobs :
        "error" \in DOMAIN loc[j].render_result =>
            /\ hist[j].lastOutcome.kind = "timeout" =>
                  /\ loc[j].render_result.error = "Animation generation timed out"
                  /\ loc[j].render_result.details =
                         "The animation took too long to generate. Please try a simpler concept."
            /\ (hist[j].lastOutcome.kind \in {"timeout", "exit"}
                    /\ Len(hist[j].rendered) = 1)
                  => (pc[j] = "pattern" \/ InSeq("pattern", hist[j].tiers))

\* the first subprocess timed out with text on its standard error and the
\* job is in pattern repair
C27_Witness ==
    \E j \in Jobs :
        /\ pc[j] = "pattern"
        /\ hist[j].lastOutcome.kind = "timeout"
        /\ hist[j].lastOutcome.stderr # ""

\* C28: AI repair is what follows a pattern repair that changed nothing or
\* whose render failed, and it is called with the text of the last render
\* and the diagnostics of that render.
C28_AiRepairArgs ==
    \A j \in Jobs :
        /\ pc[j] \in {"ai_fix_a", "ai_fix_b"} =>
              /\ AiRepairArgs(pc[j], loc[j]).broken_code = hist[j].lastText
              /\ AiRepairArgs(pc[j], loc[j]).error_message = hist[j].lastDiag
        /\ (pc[j] = "ai_fix_b") =>
              (InSeq("pattern", hist[j].tiers) /\ Len(hist[j].rendered) = 1)
        /\ (pc[j] = "ai_fix_a") =>
              (InSeq("pattern", hist[j].tiers) /\ Len(hist[j].rendered) = 2)
        /\ (Len(hist[j].rendered) >= 3 \/ (pc[j] = "done" /\ hist[j].exit = "render"
                                            /\ InSeq("pattern", hist[j].tiers)))
              => InSeq("ai", hist[j].tiers)

\* the render of the pattern-repaired code failed and AI repair is about to
\* be called with that code
C28_Witness ==
    \E j \in Jobs :
        /\ pc[j] = "ai_fix_a"
        /\ loc[j].fixed_code # loc[j].manim_code
        /\ hist[j].lastText = loc[j].fixed_code

\* C21 (as stated): the engine is idempotent, fix(fix(code, diag), diag) =
\* fix(code, diag): a second call on what the first returned, with the same
\* diagnostic, changes nothing.
C21_Idempotent ==
    (call.fn = "fix" /\ call.pass = 2) => ret = call.code

\* the line of a get_area call by its parts, after the repair the rule is
\* meant to make: the curve built first, at the same indentation, and graph
\* passed in place of the lambda
GraphArgExpected(sh, name) ==
    SceneHead
        \o sh.indent \o "graph = " \o sh.axes \o ".plot(lambda " \o sh.lambda_var
        \o ": " \o sh.body \o ")\n"
        \o sh.indent \o sh.target \o sh.axes \o "." \o name \o "(graph" \o sh.rest
        \o "\n        self.add(area)"

\* C22 (as stated): for a diagnostic with "get_area" and "'function' object
\* has no attribute", every get_area call that passed an inline lambda is
\* preceded, at the same indentation, by graph = <axes>.plot(lambda ...), the
\* call passes graph instead of the lambda, and the other lines are unchanged.
C22_GraphInserted ==
    (/\ call.fn = "fix" /\ call.pass = 1
     /\ call.name = "get_area"
     /\ In("get_area", call.error_msg)
     /\ In("'function' object has no attribute", call.error_msg))
        => ret = GraphArgExpected(call.shape, "get_area")

\* the replacement the table lists for an identifier, the identifier itself
\* when the table does not list it
Listed(table, w) ==
    IF \E i \in DOMAIN table : table[i][1] = w
    THEN table[CHOOSE i \in DOMAIN table : table[i][1] = w][2]
    ELSE w

\* the identifiers of a line replaced as the table lists them, each whole
\* identifier looked up once
RECURSIVE ListedFrom(_, _, _)
ListedFrom(table, line, i) ==
    IF i > Len(line) THEN ""
    ELSE IF Char(line, i) \in WordChars
    THEN Listed(table, Slice(line, i, Skip(line, i, WordChars) - 1))
             \o ListedFrom(table, line, Skip(line, i, WordChars))
    ELSE Slice(line, i, SkipTo(line, i, WordChars) - 1)
             \o ListedFrom(table, line, SkipTo(line, i, WordChars))

ListedLine(line, table) == <<ListedFrom(table, line, 1)>>

ListedCode(table, code) == join("\n", FlatMap(ListedLine, split(code), table))

\* C29 (as stated): when an identifier-replacement rule fires, every
\* deprecated identifier of its table is replaced by exactly the replacement
\* the table lists for it.
C29_ListedReplacement ==
    (call.fn = "fix" /\ call.pass = 1) =>
        /\ FiringRule(call.code, call.error_msg) = "color"
              => ret = ListedCode(color_fixes, call.code)
        /\ FiringRule(call.code, call.error_msg) = "method"
              => ret = ListedCode(method_fixes, call.code)

\* C30 (as stated): for every diagnostic with 'MainScene' and 'not defined'
\* and every code without 'class MainScene' the engine returns code that
\* declares class MainScene.
C30_MainSceneDeclared ==
    (/\ call.fn = "fix" /\ call.pass = 1
     /\ In("MainScene", call.error_msg) /\ In("not defined", call.error_msg)
     /\ ~In("class MainScene", call.code))
        => In("class MainScene(Scene)", ret)

\* C30 (amended): the same, for the diagnostics and codes for which no
\* earlier rule of the engine returns first; a class DemoScene(Scene) is
\* renamed, code with no such class is wrapped.
C30_MainSceneDeclaredWhenReached ==
    (/\ call.fn = "fix" /\ call.pass = 1
     /\ In("MainScene", call.error_msg) /\ In("not defined", call.error_msg)
     /\ ~In("class MainScene", call.code)
     /\ FiringRule(call.code, call.error_msg)
            \notin {"get_area", "get_riemann_rectangles", "numpy", "color", "method"})
        => /\ In("class MainScene(Scene)", ret)
           /\ In("class DemoScene(Scene)", call.code)
                 => ret = replace(call.code, "class DemoScene(Scene)",
                                  "class MainScene(Scene)")
           /\ ~In("Scene(Scene)", call.code)
                 => /\ StartsAt(ret, SceneHead, 1)
                    /\ Len(split(ret)) = Len(split(call.code)) + 4

\* top-level statements were wrapped in a class MainScene
C30_Witness ==
    /\ call.fn = "fix" /\ call.pass = 1
    /\ In("MainScene", call.error_msg) /\ In("not defined", call.error_msg)
    /\ ~In("class ", call.code)
    /\ In("class MainScene(Scene)", ret)

\* the diagnostics the analyzers of the modelled runs produce
AnalyzerDiagnostics ==
    {strip(r.stdout \o r.stderr) : r \in {o \in RuffOutcomes : o.kind = "exit"}}
    \cup {strip(q.stdout) : q \in {o \in PylintOutcomes : o.kind = "exit"}}

\* a timeout of ruff is reported as a failure whose diagnostic no analyzer
\* produced
TimeoutDistinguished ==
    call.ruff.kind = "timeout" =>
        /\ ~ret.success
        /\ ret.errors = "Linting timeout - code may have infinite loops"
        /\ ret.errors \notin AnalyzerDiagnostics

\* C23 (as stated): whenever ruff is missing lint_code skips validation and
\* reports success; a timeout of ruff reports failure with a diagnostic that
\* differs from every analyzer-produced diagnostic.
C23_SkipWhenRuffMissing ==
    (call.fn = "lint" /\ call.pass = 1) =>
        /\ call.ruff.kind = "missing" => ret = [success |-> TRUE, errors |-> NoneV]
        /\ TimeoutDistinguished

\* C23 (amended): when ruff is missing lint_code runs pylint instead and
\* reports what it found; it skips validation and reports success only when
\* pylint cannot be run either.
C23_PylintWhenRuffMissing ==
    (call.fn = "lint" /\ call.pass = 1) =>
        /\ (call.ruff.kind = "missing" /\ call.pylint.kind # "exit")
              => ret = [success |-> TRUE, errors |-> NoneV]
        /\ (call.ruff.kind = "missing" /\ call.pylint.kind = "exit")
              => /\ ret.success <=> (/\ call.pylint.returncode = 0
                                     /\ ~In("error", lower(call.pylint.stdout)))
                 /\ ~ret.success => ret.errors = strip(call.pylint.stdout)
        /\ TimeoutDistinguished

\* ruff is missing and pylint found an undefined name
C23_Witness ==
    /\ call.fn = "lint" /\ call.pass = 1
    /\ call.ruff.kind = "missing"
    /\ call.pylint.kind = "exit" /\ call.pylint.returncode = 2
    /\ ~ret.success
    /\ In("E0602", ret.errors)

\* the class of an instruction, read off its text
InstructionClass(r) ==
    CASE r = DefaultInstruction -> "default"
      [] \/ StartsAt(r, "Create a smooth animated transformation", 1)
         \/ StartsAt(r, "Create a complex animated transformation sequence: ", 1)
           -> "transformation"
      [] \E i \in DOMAIN educational_keywords :
             StartsAt(r, educational_keywords[i][2] \o ". Based on user request: '", 1)
           -> "educational"
      [] \E i \in DOMAIN math_keywords :
             StartsAt(r, math_keywords[i][2] \o ". Based on user request: '", 1)
           -> "mathematical"
      [] \E i \in DOMAIN shape_keywords :
             StartsAt(r, shape_keywords[i][2] \o ". Based on user request: '", 1)
           -> "shape"
      [] StartsAt(r, "Create an animated Manim scene that illustrates: '", 1) -> "generic"
      [] OTHER -> "unknown"

\* the class the priority order gives a prompt when a transformation request
\* counts with the numbers of entities in counts
PriorityClass(prompt, counts) ==
    LET p == replace_named_colors_with_hex(strip(prompt))
    IN IF strip(prompt) = "" THEN "default"
       ELSE IF /\ is_transformation_request(p)
               /\ Len(extract_transformation_sequence(p)) \in counts
       THEN "transformation"
       ELSE IF Matches(educational_keywords, lower(p)) # <<>> THEN "educational"
       ELSE IF Matches(math_keywords, lower(p)) # <<>> THEN "mathematical"
       ELSE IF Matches(shape_keywords, lower(p)) # <<>> THEN "shape"
       ELSE "generic"

\* C24 (as stated): a whitespace-only concept gives the default instruction;
\* otherwise a transformation request with 2 to 4 extracted entities gives
\* the transformation template, else an educational keyword, else a
\* mathematical keyword, else a shape keyword decides, else the generic
\* instruction is given.
C24_PriorityUpToFour ==
    (call.fn = "refine" /\ call.pass = 1) =>
        /\ InstructionClass(ret) = PriorityClass(call.prompt, 2..4)
        /\ call.chain \in 2..4 => ret = TransformationTemplate(call.entities)
        /\ call.chain > 4 => InstructionClass(ret) # "transformation"

\* C24 (amended): the same with 2 or more extracted entities; a chain of k
\* entities gives the template filled with exactly these entities.
C24_PriorityTwoOrMore ==
    (call.fn = "refine" /\ call.pass = 1) =>
        /\ InstructionClass(ret) = PriorityClass(call.prompt, 2..(Len(call.prompt) + 2))
        /\ call.chain >= 2 => ret = TransformationTemplate(call.entities)
        /\ InstructionClass(ret) \in {"educational", "mathematical", "shape", "generic"}
              => In("'" \o replace_named_colors_with_hex(strip(call.prompt)) \o "'", ret)

\* a chain of five entities that also names an educational and a
\* mathematical keyword gave the transformation template
C24_Witness ==
    /\ call.fn = "refine" /\ call.pass = 1
    /\ call.chain = 5
    /\ In("explain", call.prompt)
    /\ InstructionClass(ret) = "transformation"

\* C31: the engine returns the code it was given when no rule's condition
\* on the diagnostic holds, and when a condition holds but no line of the
\* code has the shape that rule rewrites.
C31_UnchangedWithoutShape ==
    (/\ call.fn = "fix" /\ call.pass >= 1
     /\ \A k \in MatchingRules(call.error_msg) : ~HasShape(Rules[k], call.code))
    => ret = call.code

\* the engine was called with a diagnostic of a rule and with code that has
\* no line of that rule's shape, and gave the code back
C31_Witness ==
    /\ call.fn = "fix" /\ call.pass = 1
    /\ MatchingRules(call.error_msg) # {}
    /\ \A k \in MatchingRules(call.error_msg) : ~HasShape(Rules[k], call.code)
    /\ ret = call.code

\* the first rule, in the order of the if statements, whose condition on the
\* diagnostic holds and that returns
ReturningRules(code, e) == {k \in MatchingRules(e) : Returns(Rules[k], code)}

\* C37: one call of the engine applies the rewrite of at most one rule: the
\* rules are tried in the order get_area, get_riemann_rectangles, numpy
\* import, colour names, method names, MainScene, Rectangle, Square, and the
\* result is the rewrite of the first rule that returns alone, also when the
\* condition of a later rule holds.
C37_FirstRuleOnly ==
    (call.fn = "fix" /\ call.pass >= 1) =>
        LET rs == ReturningRules(call.code, call.error_msg)
        IN IF rs = {} THEN ret = call.code
           ELSE ret = RuleFix(Rules[Min(rs)], call.code)

\* two rules would have rewritten the code, and the engine gave the rewrite
\* of the first only
C37_Witness ==
    /\ call.fn = "fix" /\ call.pass = 1
    /\ Cardinality(ReturningRules(call.code, call.error_msg)) >= 2
    /\ ret = RuleFix(Rules[Min(ReturningRules(call.code, call.error_msg))], call.code)
    /\ ret # ApplyRulesFrom(1, call.code, call.error_msg)

\* the text of the line before the constructor call and after its closing
\* parenthesis
CallAt(line, ctor) == Min({i \in 1..Len(line) : StartsAt(line, ctor, i)})
BeforeCall(line, ctor) == Slice(line, 1, CallAt(line, ctor) - 1)
AfterCall(line, ctor) ==
    Slice(line, SkipTo(line, CallAt(line, ctor), {")"}) + 1, Len(line))

\* C38: when the Rectangle or the Square rule rebuilds a constructor call,
\* the text of the line outside the call is kept (an assignment target such
\* as 'rect = '), the rebuilt call keeps a recognised color and fill_opacity,
\* and every line without the constructor is unchanged.
C38_LineOutsideCallKept ==
    (/\ call.fn = "fix" /\ call.pass >= 1
     /\ FiringRule(call.code, call.error_msg) \in {"Rectangle", "Square"})
    => LET rule == FiringRule(call.code, call.error_msg)
           ctor == rule \o "("
           lines == split(call.code)
           out == split(ret)
       IN /\ Len(out) = Len(lines)
          /\ \A i \in DOMAIN lines :
               IF i \in ShapeLines(rule, call.code)
               THEN LET color == KeywordArg(lines[i], "color", WordChars)
                        opacity == KeywordArg(lines[i], "fill_opacity", NumberChars)
                        tail == ")" \o AfterCall(lines[i], ctor)
                    IN /\ StartsAt(out[i], BeforeCall(lines[i], ctor) \o ctor, 1)
                       /\ StartsAt(out[i], tail, Len(out[i]) - Len(tail) + 1)
                       /\ color # NoneV => In("color=" \o color, out[i])
                       /\ opacity # NoneV => In("fill_opacity=" \o opacity, out[i])
               ELSE out[i] = lines[i]

\* C34: when render_animation returns success, the code of the response is
\* the text the job wrote to scene.py for the render attempt that succeeded
\* (the original, the pattern-repaired, the AI-repaired or the regenerated
\* code), not the text of an earlier attempt.
C34_ReturnedCodeIsRenderedCode ==
    \A j \in Jobs :
        (pc[j] = "done" /\ result[j] # NoResult /\ result[j].success)
        => /\ hist[j].lastOutcome.kind = "exit"
           /\ hist[j].lastOutcome.returncode = 0
           /\ result[j].code = hist[j].lastText

\* a job whose first render failed succeeded with the pattern-repaired code
C34_Witness ==
    \E j \in Jobs :
        /\ pc[j] = "done" /\ result[j] # NoResult /\ result[j].success
        /\ hist[j].rendered = <<"first", "pattern">>
        /\ result[j].code = hist[j].lastText

\* C35: the render after the AI repair is started only when the AI-repaired
\* code differs from the code of the render attempt that just failed, on the
\* path where the pattern repair changed the code and on the path where it
\* did not.
C35_AiRetryOnlyWhenChanged ==
    \A j \in Jobs :
        (pc[j] = "write" /\ loc[j].tier = "ai")
        => loc[j].ai_fixed_code # hist[j].lastText

\* C36: the code the generation stage returns has been the subject of a lint
\* run: after a lint repair replaced the code, the new code is linted before
\* it is returned for rendering.
C36_ReturnedCodeWasLinted ==
    \A j \in Jobs :
        (pc[j] = "gen_ret" /\ Truthy(loc[j].code))
        => hist[j].lastLint \in {"ok", "rejected"}

\* C33: on every exit path of lint_code (pass, fail, analyzer timeout,
\* analyzer missing with or without the fallback analyzer, unexpected
\* exception) the temporary file that holds the copy of the code has been
\* removed when the function returns.
C33_TempFileRemoved ==
    (call.fn = "lint" /\ call.pass = 1) => tempfiles = {}

\* the places of the ordered list: 1080p60, 720p30, 480p15, the root of the
\* media videos, the root of the working directory
OrderedPlaces ==
    <<"media/videos/scene/1080p60/", "media/videos/scene/720p30/",
      "media/videos/scene/480p15/", "media/videos/", "">>

PlacesPresent(present) ==
    {i \in DOMAIN OrderedPlaces : OrderedPlaces[i] \o "MainScene.mp4" \in present}

\* C32: on render success the artifact is taken from the first existing
\* path of the ordered list; the recursive scan runs only when none of them
\* exists and looks only inside the job's working directory; the response
\* has a video location exactly when success is true and the artifact was
\* moved to the output file named by the job id.
C32_ArtifactLocation ==
    (call.fn = "locate" /\ call.pass = 1) =>
        LET here == PlacesPresent(call.artifacts.present)
        IN /\ (ret.kind = "found" /\ here # {})
                 => ret.source = OrderedPlaces[Min(here)] \o "MainScene.mp4"
           /\ ret.scanned <=> here = {}
           /\ (ret.kind = "found" /\ ret.scanned)
                 => /\ ret.source \in call.artifacts.present
                    /\ StartsAt(ret.source, "media/", 1)
           /\ ret.source \notin OutsidePaths
           /\ "video_url" \in DOMAIN ret.response
                 <=> (ret.response.success /\ call.filename \in videos)
           /\ ret.response.success => ret.response.video_url = call.filename

\* two paths of the list existed and the video was taken from the first
C32_Witness ==
    /\ call.fn = "locate" /\ call.pass = 1
    /\ Cardinality(PlacesPresent(call.artifacts.present)) >= 2
    /\ ret.kind = "found"
    /\ ret.source = OrderedPlaces[Min(PlacesPresent(call.artifacts.present))]
                        \o "MainScene.mp4"
    /\ call.filename \in videos

====
